---- MODULE Spec2Model ----
(***************************************************************************)
(* scylla-migrate: the distributed migration lock (internal/lock), the     *)
(* resolver and executor (internal/migration) and the migrate command      *)
(* (cmd/migrate.go, pkg/migrate/migrate.go), as a state machine.           *)
(*                                                                         *)
(* Strings of the program (version tokens, descriptions, row keys) are     *)
(* sequences of character codes, so that concatenation, humanize and the   *)
(* lexicographic comparison are computed as the code computes them.        *)
(*                                                                         *)
(* Time is kept relative: every stored instant (expires_at, the row's TTL, *)
(* an Acquire deadline, the end of a sleep) is held as the number of       *)
(* seconds that remain until it, and Tick lets one second pass for all of  *)
(* them at once.  now > expires_at is expIn < 0.                            *)
(***************************************************************************)
EXTENDS Integers, Sequences, FiniteSets, TLC

(***************************************************************************)
(* Bounds of the model.                                                    *)
(***************************************************************************)
LockTimeout == 2          \* cfg.LockTimeout in seconds (a configuration input)
MaxEdits == 2             \* file changes the developer makes between runs
MaxSplitLen == 6          \* runes of a text handed to splitStatements
MaxContentLen == 3        \* bytes of a file whose checksum is taken
MaxDigits == 2            \* digits of the short version tokens compared
MaxZeros == 2             \* leading zeros put before a version token
MaxTimeout == 16          \* the longest cfg.LockTimeout of an Acquire under check

(***************************************************************************)
(* Program constants.                                                      *)
(***************************************************************************)
TTLBuffer == 60           \* ttl := int(timeout.Seconds()) + 60
InitialBackoff == 1       \* backoff := 1 * time.Second
BackoffCap == 10          \* if backoff < 10*time.Second

Agents == {"a1", "a2"}
Dead == "dead"            \* an owner that crashed before the run starts
Owners == Agents \cup {Dead}

Max(x, y) == IF x > y THEN x ELSE y
Min(x, y) == IF x < y THEN x ELSE y

(***************************************************************************)
(* Characters and strings.                                                 *)
(***************************************************************************)
ChUnderscore == 95
ChSpace == 32
ChR == 82

IsDigit(c) == c >= 48 /\ c <= 57

RECURSIVE StrLess(_, _)
\* Go's < on strings: lexicographic on the bytes
StrLess(s, t) ==
    IF t = <<>> THEN FALSE
    ELSE IF s = <<>> THEN TRUE
    ELSE IF s[1] # t[1] THEN s[1] < t[1]
    ELSE StrLess(Tail(s), Tail(t))

RECURSIVE StripZeros(_)
\* the digit string without its leading zeros
StripZeros(s) ==
    IF s # <<>> /\ s[1] = 48 THEN StripZeros(Tail(s)) ELSE s

\* the digits of math.MaxInt64, 9223372036854775807
MaxIntDigits == <<57, 50, 50, 51, 51, 55, 50, 48, 51, 54, 56, 53, 52, 55, 55, 53, 56, 48, 55>>

\* the order of two digit strings by the numbers they write
NumLess(s, t) ==
    LET x == StripZeros(s)
        y == StripZeros(t)
    IN IF Len(x) # Len(y) THEN Len(x) < Len(y) ELSE StrLess(x, y)

\* strconv.Atoi succeeds on a non-empty string of digits whose value fits an
\* int (64 bits); beyond that it returns a range error
AtoiOk(s) ==
    /\ s # <<>>
    /\ \A i \in DOMAIN s : IsDigit(s[i])
    /\ ~NumLess(MaxIntDigits, s)

CompareVersions(a, b) ==
    IF AtoiOk(a) /\ AtoiOk(b)
    THEN IF NumLess(a, b) THEN -1
         ELSE IF NumLess(b, a) THEN 1 ELSE 0
    ELSE IF StrLess(a, b) THEN -1
         ELSE IF StrLess(b, a) THEN 1 ELSE 0

humanize(s) == [i \in DOMAIN s |-> IF s[i] = ChUnderscore THEN ChSpace ELSE s[i]]

(***************************************************************************)
(* The migrations directory.  A file name is held already split the way    *)
(* the three patterns of the scanner split it: prefix, digits, slug and    *)
(* extension.  Two names that differ only in the extension, or in "_"      *)
(* against " " in the slug, are different files.                           *)
(***************************************************************************)
TypeVersioned == "versioned"
TypeUndo == "undo"
TypeRepeatable == "repeatable"

\* version tokens too long for an int: twenty nines, and a one with twenty zeros
Nines20 == [i \in 1..20 |-> 57]
OneZeros20 == [i \in 1..21 |-> IF i = 1 THEN 49 ELSE 48]

FileTab ==
    [f \in {"V1__a.cql", "V2__b.cql", "U1__a.cql", "U2__b.cql", "R__x.cql", "R__x.sql",
            "V99999999999999999999__p.cql", "V100000000000000000000__q.cql",
            "U99999999999999999999__p.cql"} |->
        CASE f = "V1__a.cql" -> [prefix |-> "V", digits |-> <<49>>, slug |-> <<97>>, ext |-> "cql"]
          [] f = "V2__b.cql" -> [prefix |-> "V", digits |-> <<50>>, slug |-> <<98>>, ext |-> "cql"]
          [] f = "U1__a.cql" -> [prefix |-> "U", digits |-> <<49>>, slug |-> <<97>>, ext |-> "cql"]
          [] f = "U2__b.cql" -> [prefix |-> "U", digits |-> <<50>>, slug |-> <<98>>, ext |-> "cql"]
          [] f = "R__x.cql" -> [prefix |-> "R", digits |-> <<>>, slug |-> <<120>>, ext |-> "cql"]
          [] f = "R__x.sql" -> [prefix |-> "R", digits |-> <<>>, slug |-> <<120>>, ext |-> "sql"]
          [] f = "V99999999999999999999__p.cql" ->
               [prefix |-> "V", digits |-> Nines20, slug |-> <<112>>, ext |-> "cql"]
          [] f = "V100000000000000000000__q.cql" ->
               [prefix |-> "V", digits |-> OneZeros20, slug |-> <<113>>, ext |-> "cql"]
          [] f = "U99999999999999999999__p.cql" ->
               [prefix |-> "U", digits |-> Nines20, slug |-> <<112>>, ext |-> "cql"]]

Files == DOMAIN FileTab

\* the Migration the scanner builds from a matching file name
parseMigrationFilename(f) ==
    LET n == FileTab[f] IN
    CASE n.prefix = "V" ->
           [Version |-> n.digits, Description |-> humanize(n.slug),
            Type |-> TypeVersioned, Filename |-> f]
      [] n.prefix = "U" ->
           [Version |-> n.digits, Description |-> humanize(n.slug),
            Type |-> TypeUndo, Filename |-> f]
      [] n.prefix = "R" ->
           [Version |-> <<ChR>>, Description |-> humanize(n.slug),
            Type |-> TypeRepeatable, Filename |-> f]

\* the less function handed to sort.Slice by ScanMigrationsDir
ScanLess(mi, mj) ==
    IF mi.Type = TypeRepeatable /\ mj.Type # TypeRepeatable THEN FALSE
    ELSE IF mi.Type # TypeRepeatable /\ mj.Type = TypeRepeatable THEN TRUE
    ELSE IF mi.Type = TypeRepeatable /\ mj.Type = TypeRepeatable
         THEN StrLess(mi.Description, mj.Description)
    ELSE IF CompareVersions(mi.Version, mj.Version) # 0
         THEN CompareVersions(mi.Version, mj.Version) < 0
    ELSE mi.Type = TypeVersioned

RECURSIVE SortedBy(_, _)
\* The orders sort.Slice can leave the elements of S in when its less function
\* holds for the pairs in R: no element comes after one it is less than unless
\* that one is also less than it.  sort.Slice is not stable, so two entries
\* that the less function does not order may come out either way.
SortedBy(S, R) ==
    IF S = {} THEN {<<>>}
    ELSE UNION {{<<x>> \o p : p \in SortedBy(S \ {x}, R)} :
                 x \in {y \in S : \A z \in S \ {y} : <<y, z>> \in R \/ <<z, y>> \notin R}}

\* the lists ScanMigrationsDir can return for the directory d
ScanMigrationsDir(d) ==
    {[i \in DOMAIN p |-> parseMigrationFilename(p[i])] : p \in
        SortedBy(d, {q \in d \X d :
                       ScanLess(parseMigrationFilename(q[1]), parseMigrationFilename(q[2]))})}

(***************************************************************************)
(* File contents.  A content is a text after BOM stripping and CRLF        *)
(* normalisation; its checksum is the SHA-256 of that text, taken to be    *)
(* free of collisions.  A statement is its leading keyword and a number.   *)
(***************************************************************************)
ContentTab ==
    [c \in {"c1", "c2", "c3", "bad"} |->
        CASE c = "c1" -> [ok |-> TRUE, stmts |-> << <<"CREATE", 1>>, <<"INSERT", 2>> >>]
          [] c = "c2" -> [ok |-> TRUE, stmts |-> << <<"INSERT", 3>> >>]
          [] c = "c3" -> [ok |-> TRUE, stmts |-> <<>>]
          [] c = "bad" -> [ok |-> FALSE, stmts |-> <<>>]]

Contents == DOMAIN ContentTab

CalculateChecksumFromContent(c) == <<"sha256", c>>

splitStatements(c) == ContentTab[c]

IsDDL(stmt) == stmt[1] \in {"CREATE", "ALTER", "DROP"}

\* ParseMigrationFile: the migration with Checksum and Statements filled in
\* from the file's present content, or an error
ParseMigrationFile(mig, cont) ==
    LET c == cont[mig.Filename] IN
    IF splitStatements(c).ok
    THEN [ok |-> TRUE,
          mig |-> [Version |-> mig.Version, Description |-> mig.Description,
                   Type |-> mig.Type, Filename |-> mig.Filename,
                   Checksum |-> CalculateChecksumFromContent(c),
                   Statements |-> splitStatements(c).stmts]]
    ELSE [ok |-> FALSE, mig |-> mig]

(***************************************************************************)
(* schema_migrations.  A row is held under its version column.             *)
(***************************************************************************)
NoRow == [present |-> FALSE]

\* the version column toRecord gives a migration
RecordVersion(mig) ==
    IF mig.Type = TypeRepeatable
    THEN mig.Version \o <<ChUnderscore>> \o mig.Description
    ELSE mig.Version

toRecord(mig) ==
    [Version |-> RecordVersion(mig), Description |-> mig.Description,
     Type |-> mig.Type, Filename |-> mig.Filename, Checksum |-> mig.Checksum]

Keys == {RecordVersion(parseMigrationFilename(f)) : f \in Files}

\* the row RecordMigration upserts
RowOf(rec, success) ==
    [present |-> TRUE, Version |-> rec.Version, Description |-> rec.Description,
     Type |-> rec.Type, Script |-> rec.Filename, Checksum |-> rec.Checksum,
     Success |-> success]

\* GetAppliedMigrations: the rows that exist (as a set; the order of the
\* returned slice decides nothing in the operations modelled here)
GetAppliedMigrations(rws) == {rws[k] : k \in {x \in DOMAIN rws : rws[x].present}}

(***************************************************************************)
(* Resolver.                                                               *)
(***************************************************************************)
\* an appliedMap that also holds the rows with success=false
AppliedKeysAnyRow(applied) == {a.Version : a \in applied}

\* appliedMap of GetPendingMigrations: the successful rows by version column
AppliedKeys(applied) == {a.Version : a \in {x \in applied : x.Success}}

AppliedRow(applied, k) == CHOOSE a \in applied : a.Success /\ a.Version = k

RECURSIVE PendingFrom(_, _, _, _)
\* the loop of GetPendingMigrations from index i on
PendingFrom(scanned, applied, cont, i) ==
    IF i > Len(scanned) THEN [ok |-> TRUE, list |-> <<>>]
    ELSE
      LET mig == scanned[i]
          rest == PendingFrom(scanned, applied, cont, i + 1)
          parsed == ParseMigrationFile(mig, cont)
          take == IF rest.ok
                  THEN [ok |-> TRUE, list |-> <<parsed.mig>> \o rest.list]
                  ELSE rest
      IN
      CASE mig.Type = TypeVersioned ->
             IF mig.Version \notin AppliedKeys(applied)
             THEN IF parsed.ok THEN take ELSE [ok |-> FALSE, list |-> <<>>]
             ELSE rest
        [] mig.Type = TypeRepeatable ->
             IF ~parsed.ok THEN [ok |-> FALSE, list |-> <<>>]
             ELSE IF RecordVersion(mig) \notin AppliedKeys(applied) THEN take
             ELSE IF AppliedRow(applied, RecordVersion(mig)).Checksum # parsed.mig.Checksum
                  THEN take
             ELSE rest
        [] mig.Type = TypeUndo -> rest

\* a Repeatable with a successful row is never pending, whatever its checksum
GetPendingMigrationsByKeyOnly(scanned, applied, cont) ==
    LET r == PendingFrom(scanned, applied, cont, 1)
    IN [ok |-> r.ok,
        list |-> SelectSeq(r.list,
                   LAMBDA m : ~(m.Type = TypeRepeatable
                                /\ RecordVersion(m) \in AppliedKeys(applied)))]

GetPendingMigrations(scanned, applied, cont) == PendingFrom(scanned, applied, cont, 1)

\* fileMap of ValidateAppliedChecksums: a later Versioned entry of the scanned
\* list replaces an earlier one of the same version
FileMapIndex(scanned, v) ==
    LET I == {i \in DOMAIN scanned :
                scanned[i].Type = TypeVersioned /\ scanned[i].Version = v}
    IN IF I = {} THEN 0 ELSE CHOOSE i \in I : \A j \in I : j <= i

\* a validation that skips the failed rows only
ValidateAppliedChecksumsOfAnyType(scanned, applied, cont) ==
    LET checked == {a \in applied : a.Success}
        at(a) == LET I == {i \in DOMAIN scanned :
                             scanned[i].Type = TypeVersioned
                             /\ scanned[i].Version = a.Version}
                 IN IF I = {} THEN 0 ELSE CHOOSE i \in I : \A j \in I : j <= i
        read(a) == ParseMigrationFile(scanned[at(a)], cont)
    IN  {[what |-> "no corresponding file", Version |-> a.Version] :
            a \in {x \in checked : at(x) = 0}}
        \cup
        {[what |-> "failed to parse", Version |-> a.Version] :
            a \in {x \in checked : at(x) # 0 /\ ~read(x).ok}}
        \cup
        {[what |-> "checksum mismatch", Version |-> a.Version] :
            a \in {x \in checked : at(x) # 0 /\ read(x).ok
                                   /\ read(x).mig.Checksum # x.Checksum}}

\* the errors of ValidateAppliedChecksums, one record for each error string
ValidateAppliedChecksums(scanned, applied, cont) ==
    LET checked == {a \in applied : ~(~a.Success \/ a.Type = TypeRepeatable)}
        idx(a) == FileMapIndex(scanned, a.Version)
        parsed(a) == ParseMigrationFile(scanned[idx(a)], cont)
    IN  {[what |-> "no corresponding file", Version |-> a.Version] :
            a \in {x \in checked : idx(x) = 0}}
        \cup
        {[what |-> "failed to parse", Version |-> a.Version] :
            a \in {x \in checked : idx(x) # 0 /\ ~parsed(x).ok}}
        \cup
        {[what |-> "checksum mismatch", Version |-> a.Version] :
            a \in {x \in checked : idx(x) # 0 /\ parsed(x).ok
                                   /\ parsed(x).mig.Checksum # x.Checksum}}

\* a filter that leaves out the target version itself
FilterBelowTarget(migrations, tgt) ==
    SelectSeq(migrations,
              LAMBDA mig : \/ mig.Type = TypeRepeatable
                           \/ CompareVersions(mig.Version, tgt) < 0)

FilterUpToTarget(migrations, tgt) ==
    SelectSeq(migrations,
              LAMBDA mig : \/ mig.Type = TypeRepeatable
                           \/ CompareVersions(mig.Version, tgt) <= 0)

(***************************************************************************)
(* State.                                                                  *)
(***************************************************************************)
VARIABLES
    lock,        \* the schema_lock row, or NoLock
    rows,        \* schema_migrations: version column -> row or NoRow
    dir,         \* the files of the migrations directory
    content,     \* file -> its present content
    edits,       \* file changes made so far
    pc,          \* agent -> where it stands in the migrate command
    dryRun,      \* agent -> the --dry-run flag of its run
    target,      \* agent -> the --target flag of its run ("" when not given)
    viaLib,      \* agent -> its run is Migrator.Migrate, not the migrate command
    deadlineIn,  \* agent -> seconds until the deadline of its Acquire
    backoff,     \* agent -> the backoff of its Acquire, in seconds
    sleepIn,     \* agent -> seconds until its time.Sleep returns
    pending,     \* agent -> the list handed to ExecuteAll
    mi,          \* agent -> index in pending of the migration in Execute
    sj,          \* agent -> index of the statement Execute is at
    fail,        \* agent -> the error Execute is about to return
    count,       \* agent -> the count returned by ExecuteAll (-1: not called)
    ret,         \* agent -> the result of its run
    holds,       \* agent -> Acquire returned success and Release was not called
    myExp,       \* agent -> seconds until the expires_at it wrote (-1: passed)
    log,         \* agent -> what its run did to the cluster, in order
    changed,     \* a file changed since the last run started
    reapply,     \* the Repeatable whose change made it the only pending file
    op,          \* agent -> the command it runs: "migrate", "rollback", "repair"
    steps,       \* agent -> the --steps flag of its rollback
    flags,       \* agent -> the flags of its repair
    toRollback,  \* agent -> the applied rows its rollback has selected
    work,        \* agent -> the rows its repair has still to update or remove
    stole,       \* agent -> its Acquire call has run forceRelease
    released,    \* agent -> how the Release of its run ended ("none": not called)
    lockTimeout, \* agent -> cfg.LockTimeout of its process, in seconds
    call         \* the call of a function under check: its name, argument and result

lockVars == <<lock, holds, myExp, released>>
acqVars == <<deadlineIn, backoff, sleepIn>>
execVars == <<pending, mi, sj, fail, count>>
fileVars == <<dir, content, edits, changed, reapply, call, lockTimeout>>
opVars == <<op, steps, flags, toRollback, work>>
vars == <<lock, rows, dir, content, edits, pc, dryRun, target, viaLib, deadlineIn, backoff,
          sleepIn, pending, mi, sj, fail, count, ret, holds, myExp, log, changed,
          reapply, op, steps, flags, toRollback, work, stole, released, lockTimeout, call>>

NoLock == [present |-> FALSE]
NoFail == [what |-> "none"]
NoRet == [kind |-> "none"]
RetOk == [kind |-> "ok"]
RetErr(e) == [kind |-> "error", err |-> e]
NoCall == [fn |-> "none"]
NoTarget == <<>>
NoFlags == [recalcChecksums |-> FALSE, removeFailed |-> FALSE]

\* the row the INSERT ... IF NOT EXISTS USING TTL of Acquire writes
LockRow(owner, timeout) ==
    [present |-> TRUE, locked_by |-> owner, expIn |-> timeout,
     ttlIn |-> timeout + TTLBuffer]

\* a deadline that is already reached when the loop starts
AcquireDeadlineNow(timeout) == timeout - timeout

\* deadline := time.Now().Add(timeout), as seconds from now
AcquireDeadline(timeout) == timeout

\* time.Now().After(lock.ExpiresAt)
IsExpired(l) == l.expIn < 0

Set(f, a, v) == [f EXCEPT ![a] = v]

\* a command that returns without running what it has deferred
NoDeferredRelease(d, o) == "idle"

\* what runs when the command's RunE returns: the deferred Release, which
\* migrate and rollback register unless --dry-run and repair never does
DeferredRelease(d, o) == IF d \/ o = "repair" THEN "idle" ELSE "release"

\* the end of the command's RunE with the result r
Exit(a, r) ==
    /\ ret' = Set(ret, a, r)
    /\ pc' = Set(pc, a, DeferredRelease(dryRun[a], op[a]))

\* Execute at the start of the migration at index i of list p
EnterMigration(a, p, i) ==
    /\ mi' = Set(mi, a, i)
    /\ IF Len(p[i].Statements) = 0
       THEN pc' = Set(pc, a, "recok") /\ sj' = Set(sj, a, 0)
       ELSE pc' = Set(pc, a, "exec") /\ sj' = Set(sj, a, 1)

\* every file of the directory d is applied: GetPendingMigrations is empty
AllApplied(d, cont, rws) ==
    \A s \in ScanMigrationsDir(d) :
        GetPendingMigrations(s, GetAppliedMigrations(rws), cont) = [ok |-> TRUE, list |-> <<>>]

(***************************************************************************)
(* The migrate command (cmd/migrate.go) and Migrator.Migrate               *)
(* (pkg/migrate/migrate.go), one agent a running one of them.              *)
(***************************************************************************)
\* a command that takes the lock whatever its --dry-run flag says
AcquireAlways(d) == d \/ ~d

\* migrateCmd and rollbackCmd: if !dryRun { ... Acquire ... defer Release }
AcquireNeeded(d) == ~d

\* The start of a command of agent a, after NewExecutionContext (whose
\* InitializeMetadata sends its CREATE ... IF NOT EXISTS statements to the
\* cluster, where they change nothing once the tables exist).  Unless
\* --dry-run, Acquire starts: deadline := now + timeout, backoff := 1s, and the
\* loop condition is tested for the first time.  first is where the command
\* goes on when it has the lock or needs none.
StartCommand(a, d, first) ==
    /\ pc[a] = "idle"
    /\ dryRun' = Set(dryRun, a, d)
    /\ log' = Set(log, a, <<>>)
    /\ pending' = Set(pending, a, <<>>)
    /\ toRollback' = Set(toRollback, a, <<>>)
    /\ work' = Set(work, a, <<>>)
    /\ mi' = Set(mi, a, 0)
    /\ sj' = Set(sj, a, 0)
    /\ fail' = Set(fail, a, NoFail)
    /\ count' = Set(count, a, -1)
    /\ stole' = Set(stole, a, FALSE)
    /\ changed' = FALSE
    /\ reapply' = IF changed THEN reapply ELSE "none"
    /\ IF ~AcquireNeeded(d)
       THEN /\ pc' = Set(pc, a, first)
            /\ ret' = Set(ret, a, NoRet)
            /\ UNCHANGED <<deadlineIn, backoff>>
       ELSE /\ deadlineIn' = Set(deadlineIn, a, AcquireDeadline(lockTimeout[a]))
            /\ IF AcquireDeadline(lockTimeout[a]) > 0
               THEN /\ pc' = Set(pc, a, "insert")
                    /\ backoff' = Set(backoff, a, InitialBackoff)
                    /\ ret' = Set(ret, a, NoRet)
               ELSE /\ pc' = Set(pc, a, "idle")
                    /\ backoff' = Set(backoff, a, 0)
                    /\ ret' = Set(ret, a, RetErr([what |-> "failed to acquire lock"]))
    /\ released' = Set(released, a, "none")
    /\ UNCHANGED <<lock, holds, myExp, rows, dir, call, lockTimeout, content, edits, sleepIn>>

\* A migrate run starts with the flags d (--dry-run) and t (--target); l says
\* that it is Migrator.Migrate, which has neither flag.
StartMigrate(a, d, t, l) ==
    /\ l => (~d /\ t = NoTarget)
    /\ StartCommand(a, d, "scan")
    /\ op' = Set(op, a, "migrate")
    /\ target' = Set(target, a, t)
    /\ viaLib' = Set(viaLib, a, l)
    /\ UNCHANGED <<steps, flags>>

\* where a command goes on when Acquire has returned nil
AfterAcquire(o) == IF o = "rollback" THEN "rbread" ELSE "scan"

\* a command that would go on after Acquire has given up
LoopHeadGoesOn(a, nb) ==
    IF deadlineIn[a] > 0
    THEN /\ pc' = Set(pc, a, "insert")
         /\ backoff' = Set(backoff, a, nb)
         /\ UNCHANGED ret
    ELSE /\ pc' = Set(pc, a, "scan")
         /\ backoff' = Set(backoff, a, 0)
         /\ ret' = Set(ret, a, RetErr([what |-> "failed to acquire lock"]))

\* Acquire, at the head of its loop: time.Now().Before(deadline) lets the
\* next INSERT go out, or Acquire returns the error and the command ends
\* before it has deferred Release.  nb is the backoff the loop goes on with.
LoopHead(a, nb) ==
    IF deadlineIn[a] > 0
    THEN /\ pc' = Set(pc, a, "insert")
         /\ backoff' = Set(backoff, a, nb)
         /\ UNCHANGED ret
    ELSE /\ pc' = Set(pc, a, "idle")
         /\ backoff' = Set(backoff, a, 0)
         /\ ret' = Set(ret, a, RetErr([what |-> "failed to acquire lock"]))

\* Acquire: INSERT ... IF NOT EXISTS; applied means Acquire returns nil
AcquireInsert(a) ==
    /\ pc[a] = "insert"
    /\ IF ~lock.present
       THEN /\ lock' = LockRow(a, lockTimeout[a])
            /\ holds' = Set(holds, a, TRUE)
            /\ myExp' = Set(myExp, a, lockTimeout[a])
            /\ pc' = Set(pc, a, AfterAcquire(op[a]))
            /\ deadlineIn' = Set(deadlineIn, a, 0)
            /\ backoff' = Set(backoff, a, 0)
            /\ stole' = Set(stole, a, FALSE)
            /\ UNCHANGED released
       ELSE /\ pc' = Set(pc, a, "read")
            /\ UNCHANGED <<lockVars, deadlineIn, backoff, stole>>
    /\ UNCHANGED <<rows, fileVars, dryRun, target, viaLib, opVars, sleepIn, execVars, ret, log>>

\* Acquire: GetCurrentLock after an insert that was not applied.  A row that
\* is not there (ErrNotFound) and a row that has not expired both lead to
\* time.Sleep(backoff); an expired row leads to forceRelease.
GetCurrentLock(a) ==
    /\ pc[a] = "read"
    /\ IF lock.present /\ IsExpired(lock)
       THEN /\ pc' = Set(pc, a, "steal")
            /\ UNCHANGED sleepIn
       ELSE /\ pc' = Set(pc, a, "sleep")
            /\ sleepIn' = Set(sleepIn, a, backoff[a])
    /\ UNCHANGED <<lockVars, rows, fileVars, dryRun, target, viaLib, opVars, stole, deadlineIn,
                   backoff, execVars, ret, log>>

\* Acquire: forceRelease, the unconditional DELETE, then continue
forceRelease(a) ==
    /\ pc[a] = "steal"
    /\ lock' = NoLock
    /\ stole' = Set(stole, a, TRUE)
    /\ LoopHead(a, backoff[a])
    /\ UNCHANGED <<holds, myExp, released, rows, fileVars, dryRun, target, viaLib, opVars, deadlineIn,
                   sleepIn, execVars, log>>

\* Acquire: time.Sleep(backoff) returns; backoff doubles while below 10s
SleepReturns(a) ==
    /\ pc[a] = "sleep"
    /\ sleepIn[a] = 0
    /\ LoopHead(a, IF backoff[a] < BackoffCap THEN backoff[a] * 2 ELSE backoff[a])
    /\ UNCHANGED <<lockVars, rows, fileVars, dryRun, target, viaLib, opVars, stole, deadlineIn,
                   sleepIn, execVars, log>>

\* From the scan to the call of ExecuteAll: ScanMigrationsDir, the empty-list
\* return of the migrate command, GetAppliedMigrations,
\* ValidateAppliedChecksums, GetPendingMigrations, FilterUpToTarget and the
\* empty-pending return.  The files do not change during a run, so the one
\* read of schema_migrations is the only step that meets other agents.
Resolve(a) ==
    /\ pc[a] = "scan"
    /\ \E s \in ScanMigrationsDir(dir) :
        LET applied == GetAppliedMigrations(rows)
            errs == ValidateAppliedChecksums(s, applied, content)
            pend == GetPendingMigrations(s, applied, content)
            list == IF target[a] # NoTarget
                    THEN FilterUpToTarget(pend.list, target[a])
                    ELSE pend.list
        IN
        IF Len(s) = 0 /\ ~viaLib[a]
        THEN Exit(a, RetOk) /\ UNCHANGED execVars
        ELSE IF errs # {}
        THEN /\ Exit(a, RetErr([what |-> "checksum validation failed", errors |-> errs]))
             /\ UNCHANGED execVars
        ELSE IF ~pend.ok
        THEN /\ Exit(a, RetErr([what |-> "failed to parse migration"]))
             /\ UNCHANGED execVars
        ELSE IF Len(list) = 0
        THEN Exit(a, RetOk) /\ UNCHANGED execVars
        ELSE /\ pending' = Set(pending, a, list)
             /\ IF dryRun[a]
                THEN pc' = Set(pc, a, "execdry") /\ UNCHANGED <<mi, sj>>
                ELSE EnterMigration(a, list, 1)
             /\ UNCHANGED <<fail, count, ret>>
    /\ UNCHANGED <<lockVars, rows, fileVars, dryRun, target, viaLib, opVars, stole, acqVars, log>>

\* ExecuteAll under --dry-run: every Execute logs and returns nil
ExecuteAllDryRun(a) ==
    /\ pc[a] = "execdry"
    /\ count' = Set(count, a, Len(pending[a]))
    /\ Exit(a, RetOk)
    /\ UNCHANGED <<lockVars, rows, fileVars, dryRun, target, viaLib, opVars, stole, acqVars,
                   pending, mi, sj, fail, log>>

\* Execute: after statement sj and its schema agreement, the next statement or
\* the success record
AfterStatement(a) ==
    IF sj[a] < Len(pending[a][mi[a]].Statements)
    THEN pc' = Set(pc, a, "exec") /\ sj' = Set(sj, a, sj[a] + 1)
    ELSE pc' = Set(pc, a, "recok") /\ UNCHANGED sj

\* Execute goes on although the statement returned an error
AfterExecuteIgnoringError(ok, ddl) == IF ddl THEN "wait" ELSE "next"

\* Execute, after Session.Execute(stmt): an error ends the attempt with the
\* failure record; a DDL statement is followed by the schema agreement wait
AfterExecute(ok, ddl) == IF ~ok THEN "recfail" ELSE IF ddl THEN "wait" ELSE "next"

\* Execute goes on although the schema agreement wait timed out
AfterWaitIgnoringTimeout(ok) == IF ok THEN "next" ELSE "next"

\* Execute, after WaitForSchemaAgreement: a timeout ends the attempt
AfterWait(ok) == IF ok THEN "next" ELSE "recfail"

\* ExecuteAll returns the index of the migration after the failed one
FailedCountOffByOne(i) == i

\* ExecuteAll: return i, err, where i counts the migrations before the failed
\* one, which is at place i of the list counted from 1
FailedCount(i) == i - 1

\* Execute: Session.Execute(stmt) returns nil (ok) or an error
ExecuteStatement(a) ==
    /\ pc[a] = "exec"
    /\ LET m == pending[a][mi[a]]
           st == m.Statements[sj[a]]
       IN \E ok \in BOOLEAN :
            /\ log' = Set(log, a, Append(log[a],
                        [ev |-> "stmt", mig |-> mi[a], file |-> m.Filename,
                         idx |-> sj[a], ok |-> ok]))
            /\ CASE AfterExecute(ok, IsDDL(st)) = "recfail" ->
                      /\ fail' = Set(fail, a, [what |-> "failed to execute statement",
                                               index |-> sj[a], file |-> m.Filename])
                      /\ pc' = Set(pc, a, "recfail")
                      /\ UNCHANGED sj
                 [] AfterExecute(ok, IsDDL(st)) = "wait" ->
                      /\ pc' = Set(pc, a, "wait")
                      /\ UNCHANGED <<sj, fail>>
                 [] AfterExecute(ok, IsDDL(st)) = "next" ->
                      /\ AfterStatement(a)
                      /\ UNCHANGED fail
    /\ UNCHANGED <<lockVars, rows, fileVars, dryRun, target, viaLib, opVars, stole, acqVars,
                   pending, mi, count, ret>>

\* Execute: WaitForSchemaAgreement after a DDL statement returns nil or times out
WaitForSchemaAgreement(a) ==
    /\ pc[a] = "wait"
    /\ LET m == pending[a][mi[a]] IN
       \E ok \in BOOLEAN :
            /\ log' = Set(log, a, Append(log[a],
                        [ev |-> "wait", mig |-> mi[a], file |-> m.Filename,
                         idx |-> sj[a], ok |-> ok]))
            /\ IF AfterWait(ok) = "next"
               THEN AfterStatement(a) /\ UNCHANGED fail
               ELSE /\ fail' = Set(fail, a, [what |-> "schema agreement timeout",
                                             index |-> sj[a], file |-> m.Filename])
                    /\ pc' = Set(pc, a, "recfail")
                    /\ UNCHANGED sj
    /\ UNCHANGED <<lockVars, rows, fileVars, dryRun, target, viaLib, opVars, stole, acqVars,
                   pending, mi, count, ret>>

\* RecordMigration: the upsert, which the cluster may also refuse
RecordMigration(rws, rec, success, written) ==
    IF written THEN [rws EXCEPT ![rec.Version] = RowOf(rec, success)] ELSE rws

\* Execute: the failure record, whose error is dropped; Execute returns the
\* error and ExecuteAll returns the index of the migration
RecordFailure(a) ==
    /\ pc[a] = "recfail"
    /\ LET m == pending[a][mi[a]] IN
       \E written \in BOOLEAN :
            /\ rows' = RecordMigration(rows, toRecord(m), FALSE, written)
            /\ log' = Set(log, a, Append(log[a],
                        [ev |-> "record", mig |-> mi[a], file |-> m.Filename,
                         version |-> toRecord(m).Version,
                         success |-> FALSE, written |-> written]))
    /\ count' = Set(count, a, FailedCount(mi[a]))
    /\ Exit(a, RetErr(fail[a]))
    /\ UNCHANGED <<lockVars, fileVars, dryRun, target, viaLib, opVars, stole, acqVars,
                   pending, mi, sj, fail>>

\* Execute: the success record after the loop; then ExecuteAll goes on to the
\* next migration or returns the total
RecordSuccess(a) ==
    /\ pc[a] = "recok"
    /\ LET m == pending[a][mi[a]] IN
       \E written \in BOOLEAN :
            /\ rows' = RecordMigration(rows, toRecord(m), TRUE, written)
            /\ log' = Set(log, a, Append(log[a],
                        [ev |-> "record", mig |-> mi[a], file |-> m.Filename,
                         version |-> toRecord(m).Version,
                         success |-> TRUE, written |-> written]))
            /\ IF ~written
               THEN /\ count' = Set(count, a, FailedCount(mi[a]))
                    /\ Exit(a, RetErr([what |-> "failed to record metadata",
                                       file |-> m.Filename]))
                    /\ UNCHANGED <<mi, sj>>
               ELSE IF mi[a] < Len(pending[a])
               THEN /\ EnterMigration(a, pending[a], mi[a] + 1)
                    /\ UNCHANGED <<count, ret>>
               ELSE /\ count' = Set(count, a, Len(pending[a]))
                    /\ Exit(a, RetOk)
                    /\ UNCHANGED <<mi, sj>>
    /\ UNCHANGED <<lockVars, fileVars, dryRun, target, viaLib, opVars, stole, acqVars, pending, fail>>

(***************************************************************************)
(* The rollback command (cmd/rollback.go).                                 *)
(***************************************************************************)
\* A rollback run starts with the flags d (--dry-run), t (--to) and n (--steps)
StartRollback(a, d, t, n) ==
    /\ StartCommand(a, d, "rbread")
    /\ op' = Set(op, a, "rollback")
    /\ target' = Set(target, a, t)
    /\ steps' = Set(steps, a, n)
    /\ UNCHANGED <<viaLib, flags>>

\* the successful Versioned rows as sort.Slice may leave them under the less
\* function CompareVersions(versioned[i].Version, versioned[j].Version) > 0
SortDescending(S) ==
    SortedBy(S, {q \in S \X S : CompareVersions(q[1].Version, q[2].Version) > 0})

\* rollbackCmd: the steps flag clamped to 1 .. len(versioned)
ClampSteps(n, len) == Min(IF n <= 0 THEN 1 ELSE n, len)

\* rollbackCmd: toRollback, from the sorted rows, --to and --steps
SelectRollback(versioned, tgt, n) ==
    IF tgt # NoTarget
    THEN SelectSeq(versioned, LAMBDA r : CompareVersions(r.Version, tgt) > 0)
    ELSE SubSeq(versioned, 1, ClampSteps(n, Len(versioned)))

\* Resolver.GetUndoMigration: the first Undo entry with that version string,
\* as an index of the scanned list (0: none)
GetUndoMigration(scanned, version) ==
    LET I == {i \in DOMAIN scanned :
                scanned[i].Type = TypeUndo /\ scanned[i].Version = version}
    IN IF I = {} THEN 0 ELSE CHOOSE i \in I : \A j \in I : i <= j

RECURSIVE VerifyUndo(_, _, _, _)
\* a verification that looks at the first selected row only
VerifyUndoFirstOnly(scanned, sel, cont, i) ==
    LET u == GetUndoMigration(scanned, sel[1].Version)
        parsed == ParseMigrationFile(scanned[u], cont)
    IN
    IF u = 0
    THEN [ok |-> FALSE, list |-> <<>>,
          err |-> [what |-> "no undo migration file found", version |-> sel[1].Version]]
    ELSE IF ~parsed.ok
    THEN [ok |-> FALSE, list |-> <<>>,
          err |-> [what |-> "failed to parse undo migration",
                   file |-> scanned[u].Filename]]
    ELSE [ok |-> TRUE, list |-> <<parsed.mig>>, err |-> NoFail]

\* rollbackCmd: the loop that finds and parses the Undo file of each selected
\* row, from index i on: the list undoMigrations, or the first error
VerifyUndo(scanned, sel, cont, i) ==
    IF i > Len(sel) THEN [ok |-> TRUE, list |-> <<>>, err |-> NoFail]
    ELSE
      LET u == GetUndoMigration(scanned, sel[i].Version)
          parsed == ParseMigrationFile(scanned[u], cont)
          rest == VerifyUndo(scanned, sel, cont, i + 1)
      IN
      IF u = 0
      THEN [ok |-> FALSE, list |-> <<>>,
            err |-> [what |-> "no undo migration file found", version |-> sel[i].Version]]
      ELSE IF ~parsed.ok
      THEN [ok |-> FALSE, list |-> <<>>,
            err |-> [what |-> "failed to parse undo migration",
                     file |-> scanned[u].Filename]]
      ELSE IF rest.ok
      THEN [ok |-> TRUE, list |-> <<parsed.mig>> \o rest.list, err |-> NoFail]
      ELSE rest

\* rollbackCmd from GetAppliedMigrations to the confirmation prompt: the read
\* of schema_migrations (which may fail), the selection, the scan and the
\* verification of the Undo files
RollbackSelect(a) ==
    /\ pc[a] = "rbread"
    /\ \E readOk \in BOOLEAN :
        IF ~readOk
        THEN /\ Exit(a, RetErr([what |-> "failed to get applied migrations"]))
             /\ UNCHANGED <<pending, toRollback>>
        ELSE
          \E versioned \in SortDescending({r \in GetAppliedMigrations(rows) :
                                             r.Success /\ r.Type = TypeVersioned}),
             s \in ScanMigrationsDir(dir) :
            LET sel == SelectRollback(versioned, target[a], steps[a])
                undo == VerifyUndo(s, sel, content, 1)
            IN
            IF Len(sel) = 0
            THEN Exit(a, RetOk) /\ UNCHANGED <<pending, toRollback>>
            ELSE /\ toRollback' = Set(toRollback, a, sel)
                 /\ IF ~undo.ok
                    THEN Exit(a, RetErr(undo.err)) /\ UNCHANGED pending
                    ELSE /\ pending' = Set(pending, a, undo.list)
                         /\ pc' = Set(pc, a, IF dryRun[a] THEN "rbdry" ELSE "confirm")
                         /\ UNCHANGED ret
    /\ UNCHANGED <<lockVars, rows, fileVars, dryRun, target, viaLib, op, steps, flags,
                   work, stole, acqVars, mi, sj, fail, count, log>>

\* rollbackCmd at the start of the Undo migration at index i of list p
EnterUndo(a, p, i) ==
    /\ mi' = Set(mi, a, i)
    /\ IF Len(p[i].Statements) = 0
       THEN pc' = Set(pc, a, "rbremove") /\ sj' = Set(sj, a, 0)
       ELSE pc' = Set(pc, a, "rbexec") /\ sj' = Set(sj, a, 1)

\* rollbackCmd: the prompt; any answer but y or yes ends the run with nil
Confirm(a) ==
    /\ pc[a] = "confirm"
    /\ \E yes \in BOOLEAN :
        IF yes
        THEN EnterUndo(a, pending[a], 1) /\ UNCHANGED ret
        ELSE Exit(a, RetOk) /\ UNCHANGED <<mi, sj>>
    /\ UNCHANGED <<lockVars, rows, fileVars, dryRun, target, viaLib, opVars, stole,
                   acqVars, pending, fail, count, log>>

\* rollbackCmd under --dry-run: Execute of every Undo migration logs and
\* returns nil
RollbackDryRun(a) ==
    /\ pc[a] = "rbdry"
    /\ Exit(a, RetOk)
    /\ UNCHANGED <<lockVars, rows, fileVars, dryRun, target, viaLib, opVars, stole,
                   acqVars, execVars, log>>

\* a loop that leaves the Undo script after its first statement
AfterUndoStatementLeaves(a) ==
    pc' = Set(pc, a, "rbremove") /\ UNCHANGED sj

\* rollbackCmd after statement sj of the Undo migration and its schema
\* agreement wait: the next statement, or the removal of the row
AfterUndoStatement(a) ==
    IF sj[a] < Len(pending[a][mi[a]].Statements)
    THEN pc' = Set(pc, a, "rbexec") /\ sj' = Set(sj, a, sj[a] + 1)
    ELSE pc' = Set(pc, a, "rbremove") /\ UNCHANGED sj

\* rollbackCmd: Session.Execute(stmt) of an Undo statement
RollbackStatement(a) ==
    /\ pc[a] = "rbexec"
    /\ LET m == pending[a][mi[a]]
           st == m.Statements[sj[a]]
       IN \E ok \in BOOLEAN :
            /\ log' = Set(log, a, Append(log[a],
                        [ev |-> "stmt", mig |-> mi[a], file |-> m.Filename,
                         idx |-> sj[a], ok |-> ok]))
            /\ IF ~ok
               THEN /\ Exit(a, RetErr([what |-> "rollback failed", version |-> m.Version,
                                       index |-> sj[a]]))
                    /\ UNCHANGED sj
               ELSE IF IsDDL(st)
               THEN pc' = Set(pc, a, "rbwait") /\ UNCHANGED <<sj, ret>>
               ELSE AfterUndoStatement(a) /\ UNCHANGED ret
    /\ UNCHANGED <<lockVars, rows, fileVars, dryRun, target, viaLib, opVars, stole,
                   acqVars, pending, mi, fail, count>>

\* rollbackCmd: WaitForSchemaAgreement after a DDL Undo statement; a timeout
\* is logged as a warning and the loop goes on
RollbackWait(a) ==
    /\ pc[a] = "rbwait"
    /\ \E ok \in BOOLEAN :
         log' = Set(log, a, Append(log[a],
                  [ev |-> "wait", mig |-> mi[a], file |-> pending[a][mi[a]].Filename,
                   idx |-> sj[a], ok |-> ok]))
    /\ AfterUndoStatement(a)
    /\ UNCHANGED <<lockVars, rows, fileVars, dryRun, target, viaLib, opVars, stole,
                   acqVars, pending, mi, fail, count, ret>>

\* a removal that deletes no row
RemoveMigrationOfNothing(rws, version) == rws

\* MetadataManager.RemoveMigration: DELETE ... WHERE version = ?
RemoveMigration(rws, version) == [rws EXCEPT ![version] = NoRow]

\* rollbackCmd: RemoveMigration(toRollback[i].Version) after the statements of
\* the Undo migration, then the next Undo migration or the end
RollbackRemove(a) ==
    /\ pc[a] = "rbremove"
    /\ LET v == toRollback[a][mi[a]].Version IN
       \E ok \in BOOLEAN :
            /\ log' = Set(log, a, Append(log[a],
                        [ev |-> "remove", mig |-> mi[a], version |-> v, ok |-> ok]))
            /\ IF ~ok
               THEN /\ Exit(a, RetErr([what |-> "failed to remove migration record",
                                       version |-> v]))
                    /\ UNCHANGED <<rows, mi, sj>>
               ELSE /\ rows' = RemoveMigration(rows, v)
                    /\ IF mi[a] < Len(pending[a])
                       THEN EnterUndo(a, pending[a], mi[a] + 1) /\ UNCHANGED ret
                       ELSE Exit(a, RetOk) /\ UNCHANGED <<mi, sj>>
    /\ UNCHANGED <<lockVars, fileVars, dryRun, target, viaLib, opVars, stole, acqVars,
                   pending, fail, count>>

(***************************************************************************)
(* The repair command (cmd/repair.go).  It takes no lock.                  *)
(***************************************************************************)
\* the end of the repair command with the result r
RepairReturns(a, r) ==
    /\ pc' = Set(pc, a, "idle")
    /\ ret' = Set(ret, a, r)

\* A repair run starts with the flags rc (--recalculate-checksums) and rf
\* (--remove-failed); without either it returns an error at once.
StartRepair(a, rc, rf) ==
    /\ pc[a] = "idle"
    /\ op' = Set(op, a, "repair")
    /\ flags' = Set(flags, a, [recalcChecksums |-> rc, removeFailed |-> rf])
    /\ dryRun' = Set(dryRun, a, FALSE)
    /\ log' = Set(log, a, <<>>)
    /\ pending' = Set(pending, a, <<>>)
    /\ toRollback' = Set(toRollback, a, <<>>)
    /\ work' = Set(work, a, <<>>)
    /\ mi' = Set(mi, a, 0)
    /\ sj' = Set(sj, a, 0)
    /\ fail' = Set(fail, a, NoFail)
    /\ count' = Set(count, a, -1)
    /\ stole' = Set(stole, a, FALSE)
    /\ changed' = FALSE
    /\ reapply' = IF changed THEN reapply ELSE "none"
    /\ IF ~rc /\ ~rf
       THEN RepairReturns(a, RetErr([what |-> "specify at least one repair action"]))
       ELSE /\ pc' = Set(pc, a, IF rc THEN "rprecalc" ELSE "rpfailed")
            /\ ret' = Set(ret, a, NoRet)
    /\ released' = Set(released, a, "none")
    /\ UNCHANGED <<lock, holds, myExp, rows, dir, call, lockTimeout, content, edits, target, viaLib,
                   steps, acqVars>>

\* the rows of GetAppliedMigrations in an order its sort may give them
SortAscending(S) ==
    SortedBy(S, {q \in S \X S : CompareVersions(q[1].Version, q[2].Version) < 0})

\* repairCmd, fileMap: the parsed Versioned file of version v, as an index of
\* the scanned list (0: none); a later entry replaces an earlier one
RepairFileIndex(scanned, cont, v) ==
    LET I == {i \in DOMAIN scanned :
                /\ scanned[i].Type = TypeVersioned
                /\ scanned[i].Version = v
                /\ ParseMigrationFile(scanned[i], cont).ok}
    IN IF I = {} THEN 0 ELSE CHOOSE i \in I : \A j \in I : j <= i

\* a recalculation that does not skip the rows with success=false
StaleRowsOfAnyOutcome(scanned, applied, cont) ==
    SelectSeq(
        [i \in DOMAIN applied |->
            LET x == RepairFileIndex(scanned, cont, applied[i].Version) IN
            [Version |-> applied[i].Version,
             stale |-> /\ applied[i].Type = TypeVersioned
                       /\ x # 0
                       /\ ParseMigrationFile(scanned[x], cont).mig.Checksum
                            # applied[i].Checksum,
             Checksum |-> IF x = 0 THEN <<>>
                          ELSE ParseMigrationFile(scanned[x], cont).mig.Checksum]],
        LAMBDA r : r.stale)

\* repairCmd: the applied rows whose checksum is to be updated, each with the
\* checksum of its file
StaleRows(scanned, applied, cont) ==
    SelectSeq(
        [i \in DOMAIN applied |->
            LET x == RepairFileIndex(scanned, cont, applied[i].Version) IN
            [Version |-> applied[i].Version,
             stale |-> /\ applied[i].Success
                       /\ applied[i].Type = TypeVersioned
                       /\ x # 0
                       /\ ParseMigrationFile(scanned[x], cont).mig.Checksum
                            # applied[i].Checksum,
             Checksum |-> IF x = 0 THEN <<>>
                          ELSE ParseMigrationFile(scanned[x], cont).mig.Checksum]],
        LAMBDA r : r.stale)

\* where repair goes on when the rows in work are done
AfterRepairPhase(a, phase) ==
    IF phase = "recalc" /\ flags[a].removeFailed
    THEN pc' = Set(pc, a, "rpfailed") /\ UNCHANGED ret
    ELSE RepairReturns(a, RetOk)

\* repairCmd with --recalculate-checksums: the scan, the parse of the
\* Versioned files and GetAppliedMigrations, which may fail
RepairRecalcRead(a) ==
    /\ pc[a] = "rprecalc"
    /\ \E readOk \in BOOLEAN :
        IF ~readOk
        THEN /\ RepairReturns(a, RetErr([what |-> "failed to get applied migrations"]))
             /\ UNCHANGED work
        ELSE \E s \in ScanMigrationsDir(dir),
                applied \in SortAscending(GetAppliedMigrations(rows)) :
               LET todo == StaleRows(s, applied, content) IN
               /\ work' = Set(work, a, todo)
               /\ IF todo = <<>>
                  THEN AfterRepairPhase(a, "recalc")
                  ELSE pc' = Set(pc, a, "rpupdate") /\ UNCHANGED ret
    /\ UNCHANGED <<lockVars, rows, fileVars, dryRun, target, viaLib, op, steps, flags,
                   toRollback, stole, acqVars, execVars, log>>

\* MetadataManager.UpdateChecksum: UPDATE ... SET checksum = ? WHERE version = ?,
\* which writes the checksum cell whether or not the row is there
UpdateChecksum(rws, version, checksum) ==
    IF rws[version].present
    THEN [rws EXCEPT ![version].Checksum = checksum]
    ELSE [rws EXCEPT ![version] =
            [present |-> TRUE, Version |-> version, Description |-> <<>>, Type |-> "",
             Script |-> "", Checksum |-> checksum, Success |-> FALSE]]

\* repairCmd: UpdateChecksum for the next stale row; an error is logged and
\* the loop goes on
RepairUpdate(a) ==
    /\ pc[a] = "rpupdate"
    /\ LET r == Head(work[a]) IN
       \E ok \in BOOLEAN :
            /\ rows' = IF ok THEN UpdateChecksum(rows, r.Version, r.Checksum) ELSE rows
            /\ log' = Set(log, a, Append(log[a],
                        [ev |-> "update", mig |-> 0, version |-> r.Version, ok |-> ok]))
    /\ work' = Set(work, a, Tail(work[a]))
    /\ IF Tail(work[a]) = <<>>
       THEN AfterRepairPhase(a, "recalc")
       ELSE UNCHANGED <<pc, ret>>
    /\ UNCHANGED <<lockVars, fileVars, dryRun, target, viaLib, op, steps, flags,
                   toRollback, stole, acqVars, execVars>>

\* a filter that lets every row through
GetFailedMigrationsOfAnyOutcome(applied) == applied

\* GetFailedMigrations: the rows of GetAppliedMigrations with success=false
GetFailedMigrations(applied) == SelectSeq(applied, LAMBDA r : ~r.Success)

\* repairCmd with --remove-failed: GetFailedMigrations, which may fail
RepairFailedRead(a) ==
    /\ pc[a] = "rpfailed"
    /\ \E readOk \in BOOLEAN :
        IF ~readOk
        THEN /\ RepairReturns(a, RetErr([what |-> "failed to get failed migrations"]))
             /\ UNCHANGED work
        ELSE \E applied \in SortAscending(GetAppliedMigrations(rows)) :
               LET failed == GetFailedMigrations(applied) IN
               /\ work' = Set(work, a, failed)
               /\ IF failed = <<>>
                  THEN AfterRepairPhase(a, "failed")
                  ELSE pc' = Set(pc, a, "rpremove") /\ UNCHANGED ret
    /\ UNCHANGED <<lockVars, rows, fileVars, dryRun, target, viaLib, op, steps, flags,
                   toRollback, stole, acqVars, execVars, log>>

\* repairCmd: RemoveMigration for the next failed row; an error is logged and
\* the loop goes on
RepairRemove(a) ==
    /\ pc[a] = "rpremove"
    /\ LET r == Head(work[a]) IN
       \E ok \in BOOLEAN :
            /\ rows' = IF ok THEN RemoveMigration(rows, r.Version) ELSE rows
            /\ log' = Set(log, a, Append(log[a],
                        [ev |-> "remove", mig |-> 0, version |-> r.Version, ok |-> ok]))
    /\ work' = Set(work, a, Tail(work[a]))
    /\ IF Tail(work[a]) = <<>>
       THEN AfterRepairPhase(a, "failed")
       ELSE UNCHANGED <<pc, ret>>
    /\ UNCHANGED <<lockVars, fileVars, dryRun, target, viaLib, op, steps, flags,
                   toRollback, stole, acqVars, execVars>>

(***************************************************************************)
(* Ends of a run other than the return of the command.                     *)
(***************************************************************************)
\* Execute: a panic inside Session.Execute; the deferred recover sends the
\* failure record, drops its error and panics again, and the Release that the
\* command has deferred runs while the panic unwinds
ExecutePanics(a) ==
    /\ pc[a] = "exec"
    /\ LET m == pending[a][mi[a]] IN
       \E written \in BOOLEAN :
            /\ rows' = RecordMigration(rows, toRecord(m), FALSE, written)
            /\ log' = Set(log, a, Append(log[a],
                        [ev |-> "record", mig |-> mi[a], file |-> m.Filename,
                         version |-> toRecord(m).Version,
                         success |-> FALSE, written |-> written]))
    /\ Exit(a, [kind |-> "panic"])
    /\ UNCHANGED <<lockVars, fileVars, dryRun, target, viaLib, opVars, stole, acqVars,
                   execVars>>

\* the process of agent a is killed inside a run: nothing it deferred runs and
\* the lock row it wrote stays, now the row of an owner that is gone; the
\* agent is free to start its next command as a new process
Kill(a) ==
    /\ pc[a] \notin {"idle", "crashed"}
    /\ pc' = Set(pc, a, "idle")
    /\ ret' = Set(ret, a, [kind |-> "killed"])
    /\ holds' = Set(holds, a, FALSE)
    /\ myExp' = Set(myExp, a, -1)
    /\ lock' = IF lock.present /\ lock.locked_by = a
               THEN [lock EXCEPT !.locked_by = Dead] ELSE lock
    /\ UNCHANGED <<released, rows, fileVars, dryRun, target, viaLib, opVars, stole, acqVars,
                   execVars, log>>

\* the cluster drops the lock row, whose TTL has run out while no command ran
LockRowExpires ==
    /\ lock.present
    /\ \A a \in Agents : pc[a] \in {"idle", "crashed"}
    /\ lock' = NoLock
    /\ UNCHANGED <<holds, myExp, released, rows, fileVars, pc, dryRun, target, viaLib, opVars,
                   stole, acqVars, execVars, ret, log>>

\* Release, deferred by the command: DELETE ... IF locked_by = owner
Release(a) ==
    /\ pc[a] = "release"
    /\ lock' = IF lock.present /\ lock.locked_by = a THEN NoLock ELSE lock
    /\ released' = Set(released, a, IF lock.present /\ lock.locked_by = a
                                     THEN "released" ELSE "not released")
    /\ holds' = Set(holds, a, FALSE)
    /\ myExp' = Set(myExp, a, -1)
    /\ pc' = Set(pc, a, "idle")
    /\ UNCHANGED <<rows, fileVars, dryRun, target, viaLib, opVars, stole, acqVars, execVars, ret, log>>

\* the process of agent a dies inside a run; nothing it deferred runs
Crash(a) ==
    /\ pc[a] \notin {"idle", "crashed"}
    /\ \E b \in Agents \ {a} : pc[b] # "crashed"
    /\ pc' = Set(pc, a, "crashed")
    /\ UNCHANGED <<lockVars, rows, fileVars, dryRun, target, viaLib, opVars, stole, acqVars,
                   execVars, ret, log>>

(***************************************************************************)
(* The environment: time and the developer.                                *)
(***************************************************************************)
\* One second passes.  The cluster drops the lock row when its TTL is over.
Tick ==
    /\ lock' = IF ~lock.present THEN lock
               ELSE IF lock.ttlIn <= 1 THEN NoLock
               ELSE [lock EXCEPT !.expIn = Max(-1, @ - 1), !.ttlIn = @ - 1]
    /\ deadlineIn' = [a \in Agents |-> Max(0, deadlineIn[a] - 1)]
    /\ sleepIn' = [a \in Agents |-> Max(0, sleepIn[a] - 1)]
    /\ myExp' = [a \in Agents |-> Max(-1, myExp[a] - 1)]
    /\ UNCHANGED <<holds, released, rows, fileVars, pc, dryRun, target, viaLib, opVars, stole, backoff,
                   execVars, ret, log>>

\* the developer rewrites file f with content c while no run is under way
EditFile(f, c) ==
    /\ edits < MaxEdits
    /\ \A a \in Agents : pc[a] \in {"idle", "crashed"}
    /\ f \in dir
    /\ c # content[f]
    /\ content' = [content EXCEPT ![f] = c]
    /\ edits' = edits + 1
    /\ changed' = TRUE
    /\ reapply' = IF /\ parseMigrationFilename(f).Type = TypeRepeatable
                     /\ AllApplied(dir, content, rows)
                  THEN f ELSE "none"
    /\ UNCHANGED <<lockVars, rows, dir, call, lockTimeout, pc, dryRun, target, viaLib, opVars, stole, acqVars,
                   execVars, ret, log>>

\* the developer deletes file f while no run is under way
DeleteFile(f) ==
    /\ edits < MaxEdits
    /\ \A a \in Agents : pc[a] \in {"idle", "crashed"}
    /\ f \in dir
    /\ dir' = dir \ {f}
    /\ edits' = edits + 1
    /\ changed' = TRUE
    /\ reapply' = "none"
    /\ UNCHANGED <<lockVars, rows, content, call, lockTimeout, pc, dryRun, target, viaLib, opVars, stole, acqVars,
                   execVars, ret, log>>

(***************************************************************************)
(* Specifications.                                                         *)
(***************************************************************************)
InitContent ==
    [f \in Files |->
        CASE f = "V1__a.cql" -> "c1"
          [] f = "U2__b.cql" -> "c1"
          [] f = "R__x.sql" -> "c3"
          [] OTHER -> "c2"]

\* no process has started a command yet
InitProcesses ==
    /\ pc = [a \in Agents |-> "idle"]
    /\ dryRun = [a \in Agents |-> FALSE]
    /\ target = [a \in Agents |-> NoTarget]
    /\ viaLib = [a \in Agents |-> FALSE]
    /\ deadlineIn = [a \in Agents |-> 0]
    /\ backoff = [a \in Agents |-> 0]
    /\ sleepIn = [a \in Agents |-> 0]
    /\ pending = [a \in Agents |-> <<>>]
    /\ mi = [a \in Agents |-> 0]
    /\ sj = [a \in Agents |-> 0]
    /\ fail = [a \in Agents |-> NoFail]
    /\ count = [a \in Agents |-> -1]
    /\ ret = [a \in Agents |-> NoRet]
    /\ holds = [a \in Agents |-> FALSE]
    /\ myExp = [a \in Agents |-> -1]
    /\ released = [a \in Agents |-> "none"]
    /\ log = [a \in Agents |-> <<>>]
    /\ edits = 0
    /\ changed = FALSE
    /\ reapply = "none"
    /\ op = [a \in Agents |-> "migrate"]
    /\ steps = [a \in Agents |-> 0]
    /\ flags = [a \in Agents |-> NoFlags]
    /\ toRollback = [a \in Agents |-> <<>>]
    /\ work = [a \in Agents |-> <<>>]
    /\ stole = [a \in Agents |-> FALSE]

InitAgents ==
    /\ InitProcesses
    /\ lockTimeout = [a \in Agents |-> LockTimeout]
    /\ rows = [k \in Keys |-> NoRow]
    /\ content = InitContent

\* Two operators run the migrate command against one cluster and one
\* directory; the lock row may be the one a crashed owner has just written.
Init ==
    /\ InitAgents
    /\ call = NoCall
    /\ lock \in {NoLock, LockRow(Dead, LockTimeout)}
    /\ dir = {"V1__a.cql"}

Next ==
    \/ \E a \in Agents : StartMigrate(a, FALSE, NoTarget, FALSE)
    \/ \E a \in Agents : StartRollback(a, FALSE, NoTarget, 0)
    \/ \E a \in Agents : AcquireInsert(a)
    \/ \E a \in Agents : GetCurrentLock(a)
    \/ \E a \in Agents : forceRelease(a)
    \/ \E a \in Agents : SleepReturns(a)
    \/ \E a \in Agents : Resolve(a)
    \/ \E a \in Agents : ExecuteStatement(a)
    \/ \E a \in Agents : WaitForSchemaAgreement(a)
    \/ \E a \in Agents : RecordFailure(a)
    \/ \E a \in Agents : RecordSuccess(a)
    \/ \E a \in Agents : RollbackSelect(a)
    \/ \E a \in Agents : Release(a)
    \/ Tick

Spec == Init /\ [][Next]_vars

\* One operator, any flags, and a developer who changes files between runs.
SeqTargets == {NoTarget, <<49>>}

SeqDirs ==
    {{"V1__a.cql"},
     {"V1__a.cql", "V2__b.cql", "R__x.cql"},
     {"V1__a.cql", "U1__a.cql", "R__x.cql", "R__x.sql"}}

SeqInit ==
    /\ InitAgents
    /\ call = NoCall
    /\ lock = NoLock
    /\ dir \in SeqDirs

SeqNext ==
    \/ \E d \in BOOLEAN, t \in SeqTargets, l \in BOOLEAN : StartMigrate("a1", d, t, l)
    \/ AcquireInsert("a1")
    \/ Resolve("a1")
    \/ ExecuteAllDryRun("a1")
    \/ ExecuteStatement("a1")
    \/ WaitForSchemaAgreement("a1")
    \/ RecordFailure("a1")
    \/ RecordSuccess("a1")
    \/ Release("a1")
    \/ \E f \in Files, c \in Contents : EditFile(f, c)
    \/ \E f \in Files : DeleteFile(f)

SeqSpec == SeqInit /\ [][SeqNext]_vars

\* One operator who runs migrate, rollback and repair one after the other,
\* whose process may be killed or panic inside a run, and who starts a command
\* that needs the lock only when no lock row is left; the developer rewrites
\* a Versioned file or an Undo file between runs.
OpsDirs ==
    {{"V1__a.cql", "V2__b.cql", "U1__a.cql", "U2__b.cql", "R__x.cql"},
     {"V1__a.cql", "V2__b.cql", "U2__b.cql"},
     {"V99999999999999999999__p.cql", "V100000000000000000000__q.cql",
      "U99999999999999999999__p.cql"}}

OpsSteps == {0, 2}
OpsTargets == {NoTarget, <<49>>}
OpsEdits == {<<"V1__a.cql", "c2">>, <<"U1__a.cql", "bad">>}

OpsInit ==
    /\ InitAgents
    /\ call = NoCall
    /\ lock = NoLock
    /\ dir \in OpsDirs

OpsNext ==
    \/ \E d \in BOOLEAN : (d \/ ~lock.present) /\ StartMigrate("a1", d, NoTarget, FALSE)
    \/ \E d \in BOOLEAN, t \in OpsTargets, n \in OpsSteps :
         (d \/ ~lock.present) /\ StartRollback("a1", d, t, n)
    \/ \E rc \in BOOLEAN, rf \in BOOLEAN : StartRepair("a1", rc, rf)
    \/ AcquireInsert("a1")
    \/ Resolve("a1")
    \/ ExecuteAllDryRun("a1")
    \/ ExecuteStatement("a1")
    \/ WaitForSchemaAgreement("a1")
    \/ RecordFailure("a1")
    \/ RecordSuccess("a1")
    \/ ExecutePanics("a1")
    \/ RollbackSelect("a1")
    \/ Confirm("a1")
    \/ RollbackDryRun("a1")
    \/ RollbackStatement("a1")
    \/ RollbackWait("a1")
    \/ RollbackRemove("a1")
    \/ RepairRecalcRead("a1")
    \/ RepairUpdate("a1")
    \/ RepairFailedRead("a1")
    \/ RepairRemove("a1")
    \/ Release("a1")
    \/ Kill("a1")
    \/ LockRowExpires
    \/ \E e \in OpsEdits : EditFile(e[1], e[2])

OpsSpec == OpsInit /\ [][OpsNext]_vars

\* Two operators keep running the migrate command over an empty directory, so
\* that a run is Acquire followed by Release; either may crash while the other
\* lives.  Every agent that can take a step eventually takes it, and time
\* passes.
LockInit ==
    /\ InitAgents
    /\ call = NoCall
    /\ lock \in {NoLock, LockRow(Dead, LockTimeout)}
    /\ dir = {}

AgentStep(a) ==
    \/ StartMigrate(a, FALSE, NoTarget, FALSE)
    \/ AcquireInsert(a)
    \/ GetCurrentLock(a)
    \/ forceRelease(a)
    \/ SleepReturns(a)
    \/ Resolve(a)
    \/ Release(a)

LockNext ==
    \/ \E a \in Agents : AgentStep(a)
    \/ \E a \in Agents : Crash(a)
    \/ Tick

LockSpec ==
    /\ LockInit
    /\ [][LockNext]_vars
    /\ \A a \in Agents : WF_vars(AgentStep(a))
    /\ WF_vars(Tick)

(***************************************************************************)
(* Properties.                                                             *)
(***************************************************************************)
\* agent a is between a successful Acquire and its Release, and the
\* expires_at it wrote has not passed
HoldsUnexpired(a) == holds[a] /\ myExp[a] >= 0

\* C1: two agents never both hold the lock (Acquire returned success, Release
\* not called) while neither agent's own expires_at has passed.
C1_LockMutualExclusion ==
    \A a, b \in Agents : a # b => ~(HoldsUnexpired(a) /\ HoldsUnexpired(b))

\* in this step agent b executes a migration statement
ExecutesStatement(b) ==
    /\ Len(log'[b]) = Len(log[b]) + 1
    /\ log'[b][Len(log'[b])].ev = "stmt"

\* in this step agent b writes a schema_migrations row
WritesRow(b) ==
    /\ Len(log'[b]) = Len(log[b]) + 1
    /\ log'[b][Len(log'[b])].ev = "record"
    /\ log'[b][Len(log'[b])].written

\* C2: while one agent is between its successful Acquire and its Release, no
\* other agent executes a migration statement or writes a schema_migrations row.
C2_NoConcurrentMigration ==
    [][\A a, b \in Agents :
         (a # b /\ holds[a]) => ~(ExecutesStatement(b) \/ WritesRow(b))]_vars

\* C4: once a success=true row exists for version v, no Execute runs a
\* statement of the Versioned file with version v.
C4_VersionedAppliedOnce ==
    [][\A b \in Agents :
         ExecutesStatement(b) =>
            LET m == pending[b][mi[b]] IN
            m.Type = TypeVersioned =>
               ~(rows[m.Version].present /\ rows[m.Version].Success)]_vars

\* the lock row was written by an owner that has crashed
CrashedOwnerRow ==
    /\ lock.present
    /\ \/ lock.locked_by = Dead
       \/ pc[lock.locked_by] = "crashed"

\* Acquire has just returned success to agent a
AcquireSucceeded(a) == pc[a] = "scan" /\ holds[a] /\ ~dryRun[a]

Returned(a) == pc[a] = "idle" /\ ret[a] # NoRet

\* C5: after a migrate run without --target (and without --dry-run) has
\* returned success, and while no file has changed since it started, nothing
\* is pending.
C5_NothingPendingAfterMigrate ==
    \A a \in Agents :
        (Returned(a) /\ ret[a] = RetOk /\ ~dryRun[a] /\ target[a] = NoTarget /\ ~changed)
            => AllApplied(dir, content, rows)

\* the run of agent a is the first one after the change of Repeatable f, which
\* was made when every migration was applied
Reapplying(a, f) ==
    /\ f # "none"
    /\ reapply = f
    /\ ~changed
    /\ pc[a] # "crashed"

\* C6: from a state where every migration is applied, after the content of one
\* Repeatable file is changed the next run has exactly that file pending, and
\* when the run has returned success its row R_<description> has success=true
\* and the checksum of the new content.
C6_RepeatableReapplied ==
    \A a \in Agents : \A f \in Files :
        Reapplying(a, f) =>
            /\ (pc[a] \in {"exec", "wait", "recok", "recfail", "execdry"}
                  \/ (pc[a] \in {"release", "idle"} /\ ret[a] = RetOk))
                 => (Len(pending[a]) = 1 /\ pending[a][1].Filename = f)
            /\ (Returned(a) /\ ret[a] = RetOk /\ ~dryRun[a])
                 => LET k == RecordVersion(parseMigrationFilename(f)) IN
                    /\ rows[k].present
                    /\ rows[k].Success
                    /\ rows[k].Checksum = CalculateChecksumFromContent(content[f])

C6_Witness ==
    \E a \in Agents : \E f \in Files :
        /\ Reapplying(a, f)
        /\ Returned(a) /\ ret[a] = RetOk /\ ~dryRun[a]
        /\ Len(pending[a]) = 1 /\ pending[a][1].Filename = f
        /\ rows[RecordVersion(parseMigrationFilename(f))].Checksum
             = CalculateChecksumFromContent(content[f])

\* a successful Versioned row has no file of its version in the directory, or
\* the file's checksum is not the recorded one
AppliedVersionedMismatch ==
    \E k \in Keys :
        /\ rows[k].present /\ rows[k].Success /\ rows[k].Type = TypeVersioned
        /\ LET F == {f \in dir : /\ parseMigrationFilename(f).Type = TypeVersioned
                                 /\ parseMigrationFilename(f).Version = k}
           IN \/ F = {}
              \/ \E f \in F : CalculateChecksumFromContent(content[f]) # rows[k].Checksum

\* C7: a run that finds a successful Versioned row without its file, or with a
\* file of another checksum, ends there with an error: it executes no
\* statement and writes no row.
C7_ChecksumValidationFatal ==
    [][\A a \in Agents :
         (pc[a] = "scan" /\ pc'[a] # "scan" /\ pc'[a] # "crashed"
            /\ AppliedVersionedMismatch)
           => (ret'[a].kind = "error" /\ pc'[a] \in {"release", "idle"}
                 /\ log'[a] = <<>> /\ rows' = rows)]_vars

\* the events of L before place i and after the record event before it
RECURSIVE AttemptOf(_, _)
AttemptOf(L, i) ==
    IF i = 1 \/ L[i - 1].ev = "record" THEN <<>>
    ELSE Append(AttemptOf(L, i - 1), L[i - 1])

RECURSIVE CompleteAttempt(_, _, _)
\* what an attempt that runs statements j.. of migration number n without a
\* failed statement and without an agreement timeout does
CompleteAttempt(m, n, j) ==
    IF j > Len(m.Statements) THEN <<>>
    ELSE <<[ev |-> "stmt", mig |-> n, file |-> m.Filename, idx |-> j, ok |-> TRUE]>>
         \o (IF IsDDL(m.Statements[j])
             THEN <<[ev |-> "wait", mig |-> n, file |-> m.Filename, idx |-> j, ok |-> TRUE]>>
             ELSE <<>>)
         \o CompleteAttempt(m, n, j + 1)

\* C8: a success=true row is written only by an attempt in which every
\* statement of the migration was executed without error, in order, and every
\* schema agreement wait after a DDL statement returned without timeout.
C8_SuccessRowOnlyAfterAllStatements ==
    \A a \in Agents : \A i \in DOMAIN log[a] :
        (log[a][i].ev = "record" /\ log[a][i].success)
            => AttemptOf(log[a], i)
                 = CompleteAttempt(pending[a][log[a][i].mig], log[a][i].mig, 1)

C8_Witness ==
    \E a \in Agents : \E i \in DOMAIN log[a] :
        /\ log[a][i].ev = "record" /\ log[a][i].success /\ log[a][i].written
        /\ Len(AttemptOf(log[a], i)) = 3
        /\ rows[log[a][i].version].present /\ rows[log[a][i].version].Success

\* the place in the log of agent a of a statement that failed
FailedAt(a) == {i \in DOMAIN log[a] : log[a][i].ev = "stmt" /\ ~log[a][i].ok}

\* the run ended after statement log[a][i] failed: nothing was executed after
\* it, the failure record was sent under the migration's effective version key
\* and the error names the statement index and the file
FailureHandled(a, i) ==
    LET e == log[a][i]
        m == pending[a][e.mig]
    IN /\ Len(log[a]) = i + 1
       /\ log[a][i + 1].ev = "record"
       /\ ~log[a][i + 1].success
       /\ log[a][i + 1].mig = e.mig
       /\ log[a][i + 1].version = RecordVersion(m)
       /\ ret[a] = RetErr([what |-> "failed to execute statement",
                           index |-> e.idx, file |-> m.Filename])

\* C9 as stated: when a statement fails, no later statement is executed, a
\* success=false row is written under the effective version key and the error
\* names the statement index and the file.
C9_FailureRowWritten ==
    \A a \in Agents : \A i \in FailedAt(a) :
        pc[a] \in {"release", "idle"} =>
            /\ FailureHandled(a, i)
            /\ rows[RecordVersion(pending[a][log[a][i].mig])].present
            /\ ~rows[RecordVersion(pending[a][log[a][i].mig])].Success

\* C9 as amended: the success=false row is there unless the cluster refused
\* the write, whose error Execute drops.
C9_FailureRowAttempted ==
    \A a \in Agents : \A i \in FailedAt(a) :
        pc[a] \in {"release", "idle"} =>
            /\ FailureHandled(a, i)
            /\ log[a][i + 1].written =>
                 /\ rows[RecordVersion(pending[a][log[a][i].mig])].present
                 /\ ~rows[RecordVersion(pending[a][log[a][i].mig])].Success

C9_Witness ==
    \E a \in Agents : \E i \in FailedAt(a) :
        /\ pc[a] = "idle"
        /\ log[a][i].idx = 1
        /\ Len(pending[a][log[a][i].mig].Statements) = 2
        /\ FailureHandled(a, i)
        /\ log[a][i + 1].written
        /\ ~rows[RecordVersion(pending[a][log[a][i].mig])].Success

\* the migrations of the run of agent a for which Execute returned nil
Succeeded(a) ==
    {log[a][i].mig : i \in {j \in DOMAIN log[a] :
        log[a][j].ev = "record" /\ log[a][j].success /\ log[a][j].written}}

\* C10: ExecuteAll goes through the list in order and stops at the first
\* migration that fails: the count it returns is the number of migrations
\* that succeeded, those are the first ones of the list, and nothing is
\* executed or recorded for a migration after the failed one.
C10_ExecuteAllStopsAtFirstFailure ==
    \A a \in Agents :
        (count[a] >= 0 /\ ~dryRun[a]) =>
            /\ \A i, j \in DOMAIN log[a] : i < j => log[a][i].mig <= log[a][j].mig
            /\ Succeeded(a) = 1..count[a]
            /\ ret[a] = RetOk => count[a] = Len(pending[a])
            /\ ret[a] # RetOk =>
                 /\ count[a] < Len(pending[a])
                 /\ \A i \in DOMAIN log[a] : log[a][i].mig <= count[a] + 1

C10_Witness ==
    \E a \in Agents :
        /\ Returned(a) /\ ~dryRun[a]
        /\ ret[a].kind = "error"
        /\ count[a] = 1
        /\ Len(pending[a]) = 3

\* the files of the directory that are not Undo files and whose version key
\* has no success=true row: never run, failed, or cut short before the record
NotApplied ==
    {f \in dir : /\ parseMigrationFilename(f).Type # TypeUndo
                 /\ LET k == RecordVersion(parseMigrationFilename(f)) IN
                    ~(rows[k].present /\ rows[k].Success)}

\* in this step a migrate run of agent a without --target gets past the
\* resolver without an error
Resolved(a) ==
    /\ pc[a] = "scan"
    /\ op[a] = "migrate"
    /\ target[a] = NoTarget
    /\ pc'[a] \notin {"scan", "crashed"}
    /\ ret'[a].kind \in {"none", "ok"}

\* statement events of a log come in file order from the first statement on
FromFirstStatement(L) ==
    \A i \in DOMAIN L :
        (L[i].ev = "stmt" /\ L[i].idx > 1) =>
            /\ i > 1
            /\ L[i - 1].mig = L[i].mig
            /\ L[i - 1].ev \in {"stmt", "wait"}
            /\ L[i - 1].ok
            /\ L[i - 1].idx = L[i].idx - 1

\* in this step agent a writes the success row of the migration it is in
SuccessRecorded(a) ==
    /\ pc[a] = "recok"
    /\ Len(log'[a]) = Len(log[a]) + 1
    /\ log'[a][Len(log'[a])].written

\* C11: a migration whose key has no success=true row (its last attempt left
\* a success=false row or none) is in the pending list of the next migrate
\* run; an attempt runs the statements from the first one; and the success
\* record of the retry leaves under the key the one row with success=true.
C11_RetryAfterFailure ==
    /\ [][\A a \in Agents :
            /\ Resolved(a) =>
                 NotApplied = {pending'[a][i].Filename : i \in DOMAIN pending'[a]}
            /\ SuccessRecorded(a) =>
                 LET m == pending[a][mi[a]] IN
                 /\ rows'[RecordVersion(m)].present
                 /\ rows'[RecordVersion(m)].Success
                 /\ rows'[RecordVersion(m)].Checksum = m.Checksum]_vars
    /\ [](\A a \in Agents : op[a] = "migrate" => FromFirstStatement(log[a]))

\* the retry of a migration that has a success=false row has run its two
\* statements and is about to record
C11_Witness ==
    \E a \in Agents :
        /\ pc[a] = "recok"
        /\ op[a] = "migrate"
        /\ LET m == pending[a][mi[a]] IN
           /\ rows[RecordVersion(m)].present
           /\ ~rows[RecordVersion(m)].Success
           /\ Len(m.Statements) = 2
           /\ Len(AttemptOf(log[a], Len(log[a]) + 1)) = 3

\* the migration that event e of the log of agent a belongs to
MigrationOf(a, e) == pending[a][e.mig]

\* C12: within one migrate run statements of a migration execute in file
\* order, pending Versioned migrations execute in ascending numeric version
\* order, and every pending Versioned migration executes before any
\* Repeatable one.
C12_ExecutionOrder ==
    \A a \in Agents :
        op[a] = "migrate" =>
            /\ FromFirstStatement(log[a])
            /\ \A i, j \in DOMAIN log[a] :
                 (i < j /\ log[a][i].ev = "stmt" /\ log[a][j].ev = "stmt") =>
                    LET x == MigrationOf(a, log[a][i])
                        y == MigrationOf(a, log[a][j])
                    IN /\ (x.Type = TypeVersioned /\ y.Type = TypeVersioned)
                            => ~NumLess(y.Version, x.Version)
                       /\ x.Type = TypeRepeatable => y.Type # TypeVersioned

\* the statement that event e of the log of agent a is about
StatementOf(a, e) == MigrationOf(a, e).Statements[e.idx]

\* the log of agent a has a wait exactly after each DDL statement that
\* returned without error, and a wait that timed out ends the attempt: the
\* failure record is sent under the version key and nothing follows it
BarrierKept(a) ==
    \A i \in DOMAIN log[a] :
        LET e == log[a][i] IN
        /\ (e.ev = "stmt" /\ e.ok /\ IsDDL(StatementOf(a, e))) =>
              IF i = Len(log[a])
              THEN pc[a] = "wait" \/ ret[a].kind = "killed"
              ELSE /\ log[a][i + 1].ev = "wait"
                   /\ log[a][i + 1].mig = e.mig
                   /\ log[a][i + 1].idx = e.idx
        /\ e.ev = "wait" =>
              /\ i > 1
              /\ log[a][i - 1].ev = "stmt"
              /\ log[a][i - 1].ok
              /\ log[a][i - 1].mig = e.mig
              /\ log[a][i - 1].idx = e.idx
              /\ IsDDL(StatementOf(a, e))
        /\ (e.ev = "wait" /\ ~e.ok) =>
              IF i = Len(log[a])
              THEN pc[a] = "recfail" \/ ret[a].kind = "killed"
              ELSE /\ Len(log[a]) = i + 1
                   /\ log[a][i + 1].ev = "record"
                   /\ ~log[a][i + 1].success
                   /\ log[a][i + 1].version = RecordVersion(MigrationOf(a, e))
                   /\ ret[a].kind \in {"error", "killed"}
                   /\ ret[a].kind = "error" =>
                        ret[a].err = [what |-> "schema agreement timeout",
                                      index |-> e.idx, file |-> e.file]

\* the places in the log of agent a of a wait that timed out and whose
\* failure record has been sent
TimedOutAt(a) ==
    {i \in DOMAIN log[a] : log[a][i].ev = "wait" /\ ~log[a][i].ok /\ i < Len(log[a])}

\* C13 as stated: a wait follows every DDL statement and no other; when it
\* times out a success=false row is recorded, Execute returns an error and no
\* further statement is executed.
C13_BarrierFailureRowWritten ==
    \A a \in Agents :
        op[a] = "migrate" =>
            /\ BarrierKept(a)
            /\ \A i \in TimedOutAt(a) :
                 /\ rows[log[a][i + 1].version].present
                 /\ ~rows[log[a][i + 1].version].Success

\* C13 as amended: the success=false row is there unless the cluster refused
\* the write, whose error Execute drops.
C13_BarrierFailureRowAttempted ==
    \A a \in Agents :
        op[a] = "migrate" =>
            /\ BarrierKept(a)
            /\ \A i \in TimedOutAt(a) :
                 log[a][i + 1].written =>
                    /\ rows[log[a][i + 1].version].present
                    /\ ~rows[log[a][i + 1].version].Success

C13_Witness ==
    \E a \in Agents : \E i \in TimedOutAt(a) :
        /\ op[a] = "migrate"
        /\ Returned(a)
        /\ ret[a].kind = "error"
        /\ log[a][i + 1].written
        /\ ~rows[log[a][i + 1].version].Success
        /\ Len(MigrationOf(a, log[a][i]).Statements) > log[a][i].idx

\* a step of the command that agent a runs, a kill from outside excepted
CommandStep(a) ==
    /\ pc'[a] # pc[a] \/ log'[a] # log[a]
    /\ ret'[a] # [kind |-> "killed"]

\* C14: a step of Migrate or Rollback in dry-run mode leaves the lock row and
\* schema_migrations as they are and executes no statement, waits for no
\* schema agreement and sends no record; the dry run of the pending
\* migrations returns success.
C14_DryRunUntouched ==
    [][\A a \in Agents :
          (CommandStep(a) /\ dryRun'[a] /\ op'[a] \in {"migrate", "rollback"}) =>
              /\ lock' = lock
              /\ rows' = rows
              /\ holds'[a] = FALSE
              /\ log'[a] = <<>>
              /\ pc[a] \in {"execdry", "rbdry"} => (Returned(a))' /\ ret'[a] = RetOk]_vars

C14_Witness ==
    \E a \in Agents :
        /\ Returned(a)
        /\ dryRun[a]
        /\ op[a] = "rollback"
        /\ ret[a] = RetOk
        /\ Len(toRollback[a]) > 0
        /\ lock.present

TimedOut(a) == ret[a] = RetErr([what |-> "failed to acquire lock"])

\* the places of a command that is still inside Acquire
Acquiring == {"insert", "read", "steal", "sleep"}

\* C16 as amended: a Migrate or Rollback that ends in a lock timeout has
\* returned having executed no statement of a migration and having sent no
\* record, and no step of its Acquire writes or deletes a schema_migrations
\* row; its Acquire may have deleted an expired lock row.
C16_TimeoutBeforeMigrationWork ==
    /\ [](\A a \in Agents :
            TimedOut(a) => pc[a] = "idle" /\ ~holds[a] /\ log[a] = <<>>)
    /\ [][\A a \in Agents :
            (pc[a] \in Acquiring \/ pc'[a] \in Acquiring) /\ pc'[a] # pc[a]
                => rows' = rows]_vars

\* C16 as stated: a Migrate or Rollback that ends in a lock timeout has
\* executed no statement against the cluster and has written or deleted no
\* row, the lock row included.
C16_TimeoutBeforeAnyMutation ==
    /\ C16_TimeoutBeforeMigrationWork
    /\ [](\A a \in Agents : TimedOut(a) => ~stole[a])

C16_Witness ==
    \E a \in Agents :
        /\ Returned(a)
        /\ TimedOut(a)
        /\ op[a] = "rollback"
        /\ lock.present
        /\ lock.locked_by \in Agents \ {a}

\* the step sends a write of schema_migrations for agent a: the record of a
\* migration, the update of a checksum or the removal of a row
WritesMigrations(a) ==
    /\ Len(log'[a]) = Len(log[a]) + 1
    /\ log'[a][Len(log'[a])].ev \in {"record", "update", "remove"}

\* C17: every insert, checksum update or delete of a schema_migrations row by
\* Migrate, Rollback or Repair is made by an agent that holds the migration
\* lock at that moment.
C17_WritersHoldLock ==
    [][\A a \in Agents :
          WritesMigrations(a) =>
              /\ holds[a]
              /\ lock.present
              /\ lock.locked_by = a]_vars

\* the success=true Versioned rows of schema_migrations
SuccessVersioned ==
    {r \in GetAppliedMigrations(rows) : r.Success /\ r.Type = TypeVersioned}

\* sel is what Rollback has to select from the rows V for target tgt or for
\* n steps: in descending order of the version number, the rows above the
\* target or the greatest n of them, n brought into 1..Cardinality(V)
RightSelection(sel, V, tgt, n) ==
    LET S == {sel[i] : i \in DOMAIN sel} IN
    /\ S \subseteq V
    /\ \A i, j \in DOMAIN sel : i < j => NumLess(sel[j].Version, sel[i].Version)
    /\ IF tgt # NoTarget
       THEN S = {r \in V : NumLess(tgt, r.Version)}
       ELSE /\ Len(sel) = Min(IF n < 1 THEN 1 ELSE n, Cardinality(V))
            /\ \A r \in S, q \in V \ S : NumLess(q.Version, r.Version)

\* the log of a rollback goes through the selected versions in their order,
\* all statements of one Undo script and then the removal of its row before
\* anything of the next
OneVersionAfterTheOther(a) ==
    /\ pending[a] # <<>> =>
          /\ Len(pending[a]) = Len(toRollback[a])
          /\ \A k \in DOMAIN pending[a] :
                /\ pending[a][k].Type = TypeUndo
                /\ pending[a][k].Version = toRollback[a][k].Version
    /\ \A i \in DOMAIN log[a] :
          LET e == log[a][i] IN
          /\ i = 1 => e.mig = 1
          /\ i > 1 => log[a][i - 1].mig <= e.mig
          /\ (i > 1 /\ log[a][i - 1].mig < e.mig) =>
                /\ log[a][i - 1].ev = "remove"
                /\ log[a][i - 1].ok
                /\ e.mig = log[a][i - 1].mig + 1
          /\ e.ev = "remove" =>
                /\ e.version = toRollback[a][e.mig].Version
                /\ Cardinality({j \in 1..(i - 1) :
                                  /\ log[a][j].ev = "stmt"
                                  /\ log[a][j].ok
                                  /\ log[a][j].mig = e.mig})
                      = Len(pending[a][e.mig].Statements)

\* C18: Rollback selects from the success=true Versioned rows, in descending
\* order of version, the first `steps` of them (steps clamped to 1..their
\* number) or all those above `to`, and executes the Undo scripts in that
\* order, one version completely (statements, then row removal) before the
\* next.
C18_RollbackSelectionOrder ==
    /\ [][\A a \in Agents :
            (pc[a] = "rbread" /\ toRollback'[a] # <<>>) =>
                RightSelection(toRollback'[a], SuccessVersioned, target[a], steps[a])]_vars
    /\ [][\A a \in Agents :
            (pc[a] = "rbread" /\ (Returned(a))' /\ ret'[a] = RetOk) =>
                RightSelection(<<>>, SuccessVersioned, target[a], steps[a])]_vars
    /\ [](\A a \in Agents : op[a] = "rollback" => OneVersionAfterTheOther(a))

\* some version of the selection sel has no Undo file of the same version
\* string in the directory, or one that does not parse
UndoUnusable(sel) ==
    \E s \in ScanMigrationsDir(dir), i \in DOMAIN sel :
        LET u == GetUndoMigration(s, sel[i].Version) IN
        u = 0 \/ ~ParseMigrationFile(s[u], content).ok

\* the errors of the verification of the Undo files
UndoErrors == {"no undo migration file found", "failed to parse undo migration"}

\* C19: a Rollback whose selection has a version without a usable Undo file
\* returns an error without having executed an undo statement and without
\* having removed a schema_migrations row.
C19_RollbackFailsEarly ==
    /\ [][\A a \in Agents :
            (pc[a] = "rbread" /\ toRollback'[a] # <<>> /\ UndoUnusable(toRollback'[a])) =>
                /\ ret'[a].kind = "error"
                /\ ret'[a].err.what \in UndoErrors
                /\ pc'[a] \in {"release", "idle"}
                /\ rows' = rows
                /\ log'[a] = <<>>]_vars
    /\ [](\A a \in Agents :
            (op[a] = "rollback" /\ ret[a].kind = "error"
                /\ ret[a].err.what \in UndoErrors) =>
                    /\ log[a] = <<>>
                    /\ pc[a] \in {"release", "idle"})

C19_Witness ==
    \E a \in Agents :
        /\ Returned(a)
        /\ op[a] = "rollback"
        /\ ret[a].kind = "error"
        /\ ret[a].err.what = "no undo migration file found"
        /\ Len(toRollback[a]) = 2
        /\ GetUndoMigration(CHOOSE s \in ScanMigrationsDir(dir) : TRUE,
                            toRollback[a][1].Version) # 0
        /\ \A r \in {toRollback[a][i] : i \in DOMAIN toRollback[a]} :
              r \in SuccessVersioned

\* the statements of the Undo script at place k of the rollback of agent a
\* that its log shows as executed
UndoExecuted(a, k) ==
    {j \in DOMAIN log[a] : log[a][j].ev = "stmt" /\ log[a][j].ok /\ log[a][j].mig = k}

\* C20: schema_migrations never holds a row of an Undo migration and no
\* operation sends a record of one; a step of Rollback that changes
\* schema_migrations removes the Versioned row of the version it is rolling
\* back, changes nothing else, and comes after all statements of that
\* version's Undo script have executed.
C20_UndoNotRecorded ==
    /\ [](\A k \in DOMAIN rows : rows[k].present => rows[k].Type # TypeUndo)
    /\ [](\A a \in Agents : \A i \in DOMAIN log[a] :
            log[a][i].ev = "record" =>
                /\ op[a] = "migrate"
                /\ MigrationOf(a, log[a][i]).Type # TypeUndo)
    /\ [][\A a \in Agents :
            (op[a] = "rollback" /\ CommandStep(a) /\ rows' # rows) =>
                /\ pc[a] = "rbremove"
                /\ LET v == toRollback[a][mi[a]].Version IN
                   /\ rows[v].present
                   /\ rows[v].Type = TypeVersioned
                   /\ ~rows'[v].present
                   /\ \A k \in DOMAIN rows \ {v} : rows'[k] = rows[k]
                   /\ pending[a][mi[a]].Type = TypeUndo
                   /\ pending[a][mi[a]].Version = v
                   /\ Cardinality(UndoExecuted(a, mi[a]))
                        = Len(pending[a][mi[a]].Statements)]_vars

C20_Witness ==
    \E a \in Agents :
        /\ Returned(a)
        /\ op[a] = "rollback"
        /\ ret[a] = RetOk
        /\ ~dryRun[a]
        /\ Len(toRollback[a]) = 2
        /\ Cardinality(UndoExecuted(a, 1)) = 2
        /\ Cardinality({j \in DOMAIN log[a] : log[a][j].ev = "remove" /\ log[a][j].ok}) = 2
        /\ \A i \in DOMAIN toRollback[a] : ~rows[toRollback[a][i].Version].present

\* the Versioned files of the directory that carry version v and parse
ParsableFilesOf(v) ==
    {f \in dir : /\ parseMigrationFilename(f).Type = TypeVersioned
                 /\ parseMigrationFilename(f).Version = v
                 /\ splitStatements(content[f]).ok}

\* the step ends the checksum recalculation of a Repair of agent a that did
\* not fail
RecalcEnds(a) ==
    /\ op[a] = "repair"
    /\ pc[a] \in {"rprecalc", "rpupdate"}
    /\ pc'[a] \notin {"rprecalc", "rpupdate"}
    /\ ret'[a].kind \notin {"error", "killed"}

\* an UpdateChecksum for version v that the cluster refused is in the log L
UpdateRefused(L, v) ==
    \E i \in DOMAIN L : L[i].ev = "update" /\ L[i].version = v /\ ~L[i].ok

\* a step of the recalculation changes nothing but the checksum of a
\* success=true Versioned row
RecalcFrame ==
    \A a \in Agents :
        (op[a] = "repair" /\ pc[a] \in {"rprecalc", "rpupdate"} /\ CommandStep(a)) =>
            \A k \in DOMAIN rows :
                rows'[k] # rows[k] =>
                    /\ rows[k].present
                    /\ rows[k].Success
                    /\ rows[k].Type = TypeVersioned
                    /\ rows'[k] = [rows[k] EXCEPT !.Checksum = rows'[k].Checksum]

RemoveFailedEnds(a) ==
    /\ op[a] = "repair"
    /\ pc[a] \in {"rpfailed", "rpremove"}
    /\ pc'[a] \notin {"rpfailed", "rpremove"}
    /\ ret'[a].kind \notin {"error", "killed"}

\* a RemoveMigration for version v that the cluster refused is in the log L
RemoveRefused(L, v) ==
    \E i \in DOMAIN L : L[i].ev = "remove" /\ L[i].version = v /\ ~L[i].ok

\* a step of the removal of the failed rows changes schema_migrations only by
\* deleting a row with success=false
RemoveFailedFrame ==
    \A a \in Agents :
        (op[a] = "repair" /\ pc[a] \in {"rpfailed", "rpremove"} /\ CommandStep(a)) =>
            \A k \in DOMAIN rows :
                rows'[k] # rows[k] =>
                    /\ rows[k].present
                    /\ ~rows[k].Success
                    /\ ~rows'[k].present

ChApostrophe == 39
ChQuote == 34
ChSemicolon == 59
ChHyphen == 45
ChSlash == 47
ChStar == 42
ChLF == 10
ChA == 97

\* the runes the texts under check are made of
SplitAlphabet ==
    {ChApostrophe, ChQuote, ChSemicolon, ChHyphen, ChSlash, ChStar, ChLF, ChA}

\* the texts of exactly k runes over the alphabet A
Texts(A, k) == [1..k -> A]

\* unicode.IsSpace on the runes below U+0100
IsSpace(c) == c \in {9, 10, 11, 12, 13, 32, 133, 160}

RECURSIVE TrimLeft(_)
TrimLeft(s) == IF s # <<>> /\ IsSpace(s[1]) THEN TrimLeft(Tail(s)) ELSE s

RECURSIVE TrimRight(_)
TrimRight(s) ==
    IF s # <<>> /\ IsSpace(s[Len(s)]) THEN TrimRight(SubSeq(s, 1, Len(s) - 1)) ELSE s

\* strings.TrimSpace
TrimSpace(s) == TrimRight(TrimLeft(s))

\* statements = append(statements, stmt) if stmt != ""
PushStatement(out, cur) ==
    IF TrimSpace(cur) # <<>> THEN Append(out, TrimSpace(cur)) ELSE out

\* the splitter before the first rune
SplitStart ==
    [inSingleQuote |-> FALSE, inDoubleQuote |-> FALSE, inLineComment |-> FALSE,
     inBlockComment |-> FALSE, current |-> <<>>, statements |-> <<>>]

RECURSIVE SplitLoop(_, _, _)
\* the loop of splitStatements over runes from index i (1-based) on, st being
\* the flags, the builder and the statements so far
SplitLoop(runes, i, st) ==
    IF i > Len(runes) THEN st
    ELSE
      LET ch == runes[i]
          more == i + 1 <= Len(runes)
          plain == ~st.inSingleQuote /\ ~st.inDoubleQuote
      IN
      IF st.inLineComment
      THEN IF ch = ChLF
           THEN SplitLoop(runes, i + 1,
                    [st EXCEPT !.inLineComment = FALSE, !.current = Append(@, ch)])
           ELSE SplitLoop(runes, i + 1, st)
      ELSE IF st.inBlockComment
      THEN IF ch = ChStar /\ more /\ runes[i + 1] = ChSlash
           THEN SplitLoop(runes, i + 2, [st EXCEPT !.inBlockComment = FALSE])
           ELSE SplitLoop(runes, i + 1, st)
      ELSE IF plain /\ ch = ChHyphen /\ more /\ runes[i + 1] = ChHyphen
      THEN SplitLoop(runes, i + 2, [st EXCEPT !.inLineComment = TRUE])
      ELSE IF plain /\ ch = ChSlash /\ more /\ runes[i + 1] = ChStar
      THEN SplitLoop(runes, i + 2, [st EXCEPT !.inBlockComment = TRUE])
      ELSE IF ~st.inDoubleQuote /\ ch = ChApostrophe
      THEN IF st.inSingleQuote /\ more /\ runes[i + 1] = ChApostrophe
           THEN SplitLoop(runes, i + 2,
                    [st EXCEPT !.current = @ \o <<ch, runes[i + 1]>>])
           ELSE SplitLoop(runes, i + 1,
                    [st EXCEPT !.inSingleQuote = ~@, !.current = Append(@, ch)])
      ELSE IF ~st.inSingleQuote /\ ch = ChQuote
      THEN SplitLoop(runes, i + 1,
               [st EXCEPT !.inDoubleQuote = ~@, !.current = Append(@, ch)])
      ELSE IF plain /\ ch = ChSemicolon
      THEN SplitLoop(runes, i + 1,
               [st EXCEPT !.statements = PushStatement(@, st.current),
                          !.current = <<>>])
      ELSE SplitLoop(runes, i + 1, [st EXCEPT !.current = Append(@, ch)])

\* an end of input that lets an open block comment pass
SplitEndLenient(st) ==
    IF st.inSingleQuote THEN [ok |-> FALSE, err |-> "unterminated single quote in CQL"]
    ELSE IF st.inDoubleQuote
    THEN [ok |-> FALSE, err |-> "unterminated double quote in CQL"]
    ELSE [ok |-> TRUE, stmts |-> PushStatement(st.statements, st.current)]

\* what splitStatements returns once the loop has left the splitter in st
SplitEnd(st) ==
    IF st.inSingleQuote THEN [ok |-> FALSE, err |-> "unterminated single quote in CQL"]
    ELSE IF st.inDoubleQuote
    THEN [ok |-> FALSE, err |-> "unterminated double quote in CQL"]
    ELSE IF st.inBlockComment
    THEN [ok |-> FALSE, err |-> "unterminated block comment in CQL"]
    ELSE [ok |-> TRUE, stmts |-> PushStatement(st.statements, st.current)]

\* splitStatements on a text given rune by rune
splitStatementsOfRunes(runes) == SplitEnd(SplitLoop(runes, 1, SplitStart))

\* a text is handed to splitStatements
SplitInit ==
    /\ InitAgents
    /\ lock = NoLock
    /\ dir = {}
    /\ \E k \in 0..MaxSplitLen : \E t \in Texts(SplitAlphabet, k) :
          call = [fn |-> "splitStatements", arg |-> t, done |-> FALSE, res |-> <<>>]

\* the call of a function under check has not returned yet
Calling(f) == call.fn = f /\ ~call.done

\* the call returns r
Returns(r) ==
    /\ call' = [call EXCEPT !.done = TRUE, !.res = r]
    /\ UNCHANGED <<lock, rows, dir, content, edits, pc, dryRun, target, viaLib,
                   deadlineIn, backoff, sleepIn, pending, mi, sj, fail, count, ret,
                   holds, myExp, log, changed, reapply, op, steps, flags, toRollback,
                   work, stole, released, lockTimeout>>

CallSplitStatements ==
    /\ Calling("splitStatements")
    /\ Returns(splitStatementsOfRunes(call.arg))

SplitSpec == SplitInit /\ [][CallSplitStatements]_vars

RECURSIVE Unquoted(_, _, _, _)
\* the places from i on of the statement s that are outside its quoted
\* regions, the quotes themselves not counted, when place i is reached inside
\* a single-quoted literal (sq) or a double-quoted identifier (dq)
Unquoted(s, i, sq, dq) ==
    IF i > Len(s) THEN {}
    ELSE IF ~dq /\ s[i] = ChApostrophe THEN Unquoted(s, i + 1, ~sq, dq)
    ELSE IF ~sq /\ s[i] = ChQuote THEN Unquoted(s, i + 1, sq, ~dq)
    ELSE (IF ~sq /\ ~dq THEN {i} ELSE {}) \cup Unquoted(s, i + 1, sq, dq)

\* statement s has the runes c and d next to each other outside its quoted
\* regions
HasUnquotedPair(s, c, d) ==
    \E i \in Unquoted(s, 1, FALSE, FALSE) :
        /\ i + 1 \in Unquoted(s, 1, FALSE, FALSE)
        /\ s[i] = c
        /\ s[i + 1] = d

\* the number of apostrophes of the text s
Apostrophes(s) == Cardinality({i \in DOMAIN s : s[i] = ChApostrophe})

RECURSIVE SumApostrophes(_)
SumApostrophes(stmts) ==
    IF stmts = <<>> THEN 0
    ELSE Apostrophes(Head(stmts)) + SumApostrophes(Tail(stmts))

\* splitStatements has returned statements for the text it was given
SplitSucceeded == call.fn = "splitStatements" /\ call.done /\ call.res.ok

\* no returned statement has a semicolon outside its quoted regions
NoUnquotedSemicolon ==
    SplitSucceeded =>
        \A k \in DOMAIN call.res.stmts :
            LET s == call.res.stmts[k] IN
            \A i \in Unquoted(s, 1, FALSE, FALSE) : s[i] # ChSemicolon

\* no returned statement has the start of a line comment or of a block
\* comment outside its quoted regions
NoUnquotedComment ==
    SplitSucceeded =>
        \A k \in DOMAIN call.res.stmts :
            /\ ~HasUnquotedPair(call.res.stmts[k], ChHyphen, ChHyphen)
            /\ ~HasUnquotedPair(call.res.stmts[k], ChSlash, ChStar)

\* a text without comments keeps all its apostrophes, the doubled ones of a
\* literal included
ApostrophesKept ==
    (SplitSucceeded /\ \A i \in DOMAIN call.arg :
                          call.arg[i] \notin {ChHyphen, ChSlash, ChStar}) =>
        SumApostrophes(call.res.stmts) = Apostrophes(call.arg)

\* C23: in what the splitter returns, no statement has a `;` outside a quoted
\* region, none has a `--` or a `/*` outside a quoted region, and the doubled
\* apostrophe of a single-quoted literal is kept as it is.
C23_SplitterOutput ==
    /\ NoUnquotedSemicolon
    /\ NoUnquotedComment
    /\ ApostrophesKept

\* the least place of the set S, 0 when there is none
FirstOf(S) == IF S = {} THEN 0 ELSE CHOOSE j \in S : \A k \in S : j <= k

\* the place of the `*` of the first `*/` of the text t at or after place i
BlockCommentEnd(t, i) ==
    FirstOf({j \in i..(Len(t) - 1) : t[j] = ChStar /\ t[j + 1] = ChSlash})

RECURSIVE LiteralEnd(_, _)
\* the place of the apostrophe that closes the literal whose inside starts at
\* place i of the text t, a doubled apostrophe not closing it
LiteralEnd(t, i) ==
    IF i > Len(t) THEN 0
    ELSE IF t[i] # ChApostrophe THEN LiteralEnd(t, i + 1)
    ELSE IF i + 1 <= Len(t) /\ t[i + 1] = ChApostrophe THEN LiteralEnd(t, i + 2)
    ELSE i

RECURSIVE ReadTokens(_, _, _, _)
\* The text t read from place i on as a sequence of tokens: a line comment up
\* to its line feed, a block comment up to its `*/`, a literal up to its
\* closing apostrophe, an identifier up to its closing quote, a separator, or
\* one other rune.  buf is what stands since the last separator, comments
\* left out, and n counts the statements before it.  The result tells where
\* the text ends.
ReadTokens(t, i, buf, n) ==
    IF i > Len(t) THEN [end |-> "plain", buf |-> buf, n |-> n]
    ELSE
      LET two(c, d) == t[i] = c /\ i + 1 <= Len(t) /\ t[i + 1] = d IN
      IF two(ChHyphen, ChHyphen)
      THEN LET j == FirstOf({k \in (i + 2)..Len(t) : t[k] = ChLF}) IN
           IF j = 0 THEN [end |-> "line comment", buf |-> buf, n |-> n]
           ELSE ReadTokens(t, j, buf, n)
      ELSE IF two(ChSlash, ChStar)
      THEN LET j == BlockCommentEnd(t, i + 2) IN
           IF j = 0 THEN [end |-> "block comment", buf |-> buf, n |-> n]
           ELSE ReadTokens(t, j + 2, buf, n)
      ELSE IF t[i] = ChApostrophe
      THEN LET j == LiteralEnd(t, i + 1) IN
           IF j = 0 THEN [end |-> "single quote", buf |-> buf, n |-> n]
           ELSE ReadTokens(t, j + 1, buf \o SubSeq(t, i, j), n)
      ELSE IF t[i] = ChQuote
      THEN LET j == FirstOf({k \in (i + 1)..Len(t) : t[k] = ChQuote}) IN
           IF j = 0 THEN [end |-> "double quote", buf |-> buf, n |-> n]
           ELSE ReadTokens(t, j + 1, buf \o SubSeq(t, i, j), n)
      ELSE IF t[i] = ChSemicolon
      THEN ReadTokens(t, i + 1, <<>>, IF TrimSpace(buf) # <<>> THEN n + 1 ELSE n)
      ELSE ReadTokens(t, i + 1, Append(buf, t[i]), n)

\* the error splitStatements has for a text that ends inside e
UnterminatedError(e) ==
    CASE e = "single quote" -> "unterminated single quote in CQL"
      [] e = "double quote" -> "unterminated double quote in CQL"
      [] e = "block comment" -> "unterminated block comment in CQL"

\* C24: splitStatements fails exactly when its text ends inside a
\* single-quoted literal, a double-quoted identifier or a block comment; on
\* every other text, one that ends inside a line comment or without a final
\* `;` included, it succeeds and what stands after the last separator, trimmed
\* and if not empty, is the last statement.
C24_SplitterEndOfInput ==
    (call.fn = "splitStatements" /\ call.done) =>
        LET end == ReadTokens(call.arg, 1, <<>>, 0) IN
        IF end.end \in {"single quote", "double quote", "block comment"}
        THEN /\ ~call.res.ok
             /\ call.res.err = UnterminatedError(end.end)
        ELSE /\ call.res.ok
             /\ IF TrimSpace(end.buf) # <<>>
                THEN /\ Len(call.res.stmts) = end.n + 1
                     /\ call.res.stmts[Len(call.res.stmts)] = TrimSpace(end.buf)
                ELSE Len(call.res.stmts) = end.n

C24_Witness ==
    /\ call.fn = "splitStatements"
    /\ call.done
    /\ call.res.ok
    /\ ReadTokens(call.arg, 1, <<>>, 0).end = "line comment"
    /\ Len(call.res.stmts) = 2
    /\ call.res.stmts[2] = <<ChA>>

(***************************************************************************)
(* Checksums, byte by byte.  SHA-256 is taken to be free of collisions:    *)
(* the digest of a byte string stands for that string.                      *)
(***************************************************************************)
ChCR == 13
BOM == <<239, 187, 191>>

\* the bytes the files under check are made of
ContentAlphabet == {239, 187, 191, ChCR, ChLF, ChA}

RECURSIVE ReplaceCRLF(_)
\* strings.ReplaceAll(s, "\r\n", "\n")
ReplaceCRLF(s) ==
    IF s = <<>> THEN <<>>
    ELSE IF Len(s) >= 2 /\ s[1] = ChCR /\ s[2] = ChLF
    THEN <<ChLF>> \o ReplaceCRLF(SubSeq(s, 3, Len(s)))
    ELSE <<s[1]>> \o ReplaceCRLF(Tail(s))

\* strings.TrimPrefix(raw, "\xef\xbb\xbf")
TrimPrefixBOM(s) ==
    IF Len(s) >= 3 /\ SubSeq(s, 1, 3) = BOM THEN SubSeq(s, 4, Len(s)) ELSE s

\* fmt.Sprintf("%x", sha256.Sum256(b))
Sha256Hex(b) == <<"sha256", b>>

\* CalculateChecksum on a file with the bytes content, which is
\* CalculateChecksumFromContent on those bytes
CalculateChecksum(bytes) == Sha256Hex(ReplaceCRLF(bytes))

\* the Checksum ParseMigrationFile gives a migration whose file has the bytes
\* content: BOM stripped, CRLF replaced, then CalculateChecksumFromContent
ParsedChecksum(bytes) == CalculateChecksum(ReplaceCRLF(TrimPrefixBOM(bytes)))

\* the checksum the function fn gives the bytes x
ChecksumBy(fn, x) ==
    IF fn = "ParseMigrationFile" THEN ParsedChecksum(x) ELSE CalculateChecksum(x)

\* the checksum of a file is asked for, through ParseMigrationFile or through
\* CalculateChecksum
ChecksumInit ==
    /\ InitAgents
    /\ lock = NoLock
    /\ dir = {}
    /\ \E k \in 0..MaxContentLen : \E x \in Texts(ContentAlphabet, k) :
       \E fn \in {"ParseMigrationFile", "CalculateChecksum"} :
          call = [fn |-> fn, arg |-> x, done |-> FALSE, res |-> <<>>]

CallParseMigrationFile ==
    /\ Calling("ParseMigrationFile")
    /\ Returns(ParsedChecksum(call.arg))

CallCalculateChecksum ==
    /\ Calling("CalculateChecksum")
    /\ Returns(CalculateChecksum(call.arg))

ChecksumNext ==
    \/ CallParseMigrationFile
    \/ CallCalculateChecksum

ChecksumSpec == ChecksumInit /\ [][ChecksumNext]_vars

\* the normalisation of the contract: a leading BOM stripped, every CRLF
\* replaced by LF
Normalized(x) == ReplaceCRLF(TrimPrefixBOM(x))

\* a checksum has been returned
ChecksumTaken == call.fn \in {"ParseMigrationFile", "CalculateChecksum"} /\ call.done

\* the checksum of x is that of x with every CRLF replaced by LF
SameAcrossLineEndings ==
    ChecksumTaken => call.res = ChecksumBy(call.fn, ReplaceCRLF(call.arg))

\* the checksum of a BOM followed by x is that of x
SameWithBOM ==
    ChecksumTaken => ChecksumBy(call.fn, BOM \o call.arg) = call.res

\* contents that differ after normalisation have different checksums
DifferentWhenDifferent ==
    ChecksumTaken =>
        \A k \in 0..MaxContentLen : \A y \in Texts(ContentAlphabet, k) :
            Normalized(y) # Normalized(call.arg) => ChecksumBy(call.fn, y) # call.res

\* C25: the checksum of a content is the checksum of that content with every
\* CRLF replaced by LF, it is the checksum of that content behind a BOM, and
\* two contents that differ after normalisation have different checksums.
C25_ChecksumStability ==
    /\ SameAcrossLineEndings
    /\ SameWithBOM
    /\ DifferentWhenDifferent

(***************************************************************************)
(* CompareVersions on digit strings.                                       *)
(***************************************************************************)
\* math.MaxInt64 + 1 = 9223372036854775808, the least number Atoi refuses
MaxIntPlusOne == [MaxIntDigits EXCEPT ![19] = 56]

\* the digit strings compared: every short one over the digits 0, 1 and 9,
\* the numbers on either side of the int range and two beyond it, each also
\* with leading zeros
VersionTokens ==
    {[i \in 1..z |-> 48] \o b :
        z \in 0..MaxZeros,
        b \in UNION {Texts({48, 49, 57}, k) : k \in 1..MaxDigits}
              \cup {MaxIntDigits, MaxIntPlusOne, Nines20, OneZeros20}}

CompareInit ==
    /\ InitAgents
    /\ lock = NoLock
    /\ dir = {}
    /\ \E a \in VersionTokens, b \in VersionTokens :
          call = [fn |-> "CompareVersions", arg |-> <<a, b>>, done |-> FALSE, res |-> <<>>]

CallCompareVersions ==
    /\ Calling("CompareVersions")
    /\ Returns(CompareVersions(call.arg[1], call.arg[2]))

CompareSpec == CompareInit /\ [][CallCompareVersions]_vars

\* the sign of a - b for the numbers that the digit strings a and b write
SignOfDifference(a, b) ==
    IF NumLess(a, b) THEN -1 ELSE IF NumLess(b, a) THEN 1 ELSE 0

\* C26: for digit strings a and b of any length, with or without leading
\* zeros, CompareVersions returns the sign of a - b.
C26_NumericOrder ==
    (call.fn = "CompareVersions" /\ call.done) =>
        call.res = SignOfDifference(call.arg[1], call.arg[2])

(***************************************************************************)
(* The scanner and the resolver on every directory.                        *)
(***************************************************************************)
ScanInit ==
    /\ InitAgents
    /\ lock = NoLock
    /\ dir \in SUBSET Files
    /\ call = [fn |-> "ScanMigrationsDir", arg |-> <<>>, done |-> FALSE, res |-> <<>>]

CallScanMigrationsDir ==
    /\ Calling("ScanMigrationsDir")
    /\ \E s \in ScanMigrationsDir(dir) : Returns(s)

ScanSpec == ScanInit /\ [][CallScanMigrationsDir]_vars

\* C27: in the list the scanner returns every Repeatable comes after every
\* other file, the other files are in ascending order of the version number
\* with the Versioned file before the Undo file of the same version, and the
\* Repeatables are in ascending order of description.
C27_ScannerOrder ==
    (call.fn = "ScanMigrationsDir" /\ call.done) =>
        \A i, j \in DOMAIN call.res :
            i < j =>
                LET x == call.res[i]
                    y == call.res[j]
                IN
                /\ x.Type = TypeRepeatable => y.Type = TypeRepeatable
                /\ (x.Type = TypeRepeatable /\ y.Type = TypeRepeatable) =>
                      ~StrLess(y.Description, x.Description)
                /\ (x.Type # TypeRepeatable /\ y.Type # TypeRepeatable) =>
                      /\ ~NumLess(y.Version, x.Version)
                      /\ (~NumLess(x.Version, y.Version) /\ x.Type = TypeUndo) =>
                            y.Type # TypeVersioned

\* the files of the directories handed to the resolver
ResolverFiles == {"V1__a.cql", "V2__b.cql", "U1__a.cql", "R__x.cql", "R__x.sql"}

\* the version columns of the rows the resolver can find
ResolverKeys ==
    {RecordVersion(parseMigrationFilename(f)) :
        f \in {g \in ResolverFiles : parseMigrationFilename(g).Type # TypeUndo}}

\* the row that a run has left for key k: none, or the one of a migration from
\* a file of that key with content c, recorded with the outcome success
ResolverRow(k, c, success) ==
    LET f == CHOOSE g \in ResolverFiles :
                /\ parseMigrationFilename(g).Type # TypeUndo
                /\ RecordVersion(parseMigrationFilename(g)) = k
        m == parseMigrationFilename(f)
    IN RowOf([Version |-> k, Description |-> m.Description, Type |-> m.Type,
              Filename |-> f, Checksum |-> CalculateChecksumFromContent(c)], success)

\* the rows one key can have
ResolverRowsOf(k) ==
    {NoRow} \cup {ResolverRow(k, c, ok) : c \in {"c1", "c2"}, ok \in BOOLEAN}

\* a resolver is built on a scanned directory and one of its functions is
\* called with the applied rows
ResolverInit ==
    /\ InitProcesses
    /\ lockTimeout = [a \in Agents |-> LockTimeout]
    /\ lock = NoLock
    /\ \/ /\ dir \in SUBSET ResolverFiles
          /\ content \in {[InitContent EXCEPT !["V1__a.cql"] = c, !["R__x.cql"] = d] :
                            c \in {"c1", "bad"}, d \in {"c2", "c3", "bad"}}
          /\ \E r \in [ResolverKeys -> UNION {ResolverRowsOf(k) : k \in ResolverKeys}] :
                /\ \A k \in ResolverKeys : r[k] \in ResolverRowsOf(k)
                /\ rows = [k \in Keys |-> IF k \in ResolverKeys THEN r[k] ELSE NoRow]
          /\ \E fn \in {"GetPendingMigrations", "ValidateAppliedChecksums"} :
                call = [fn |-> fn, arg |-> <<>>, done |-> FALSE, res |-> <<>>]
       \/ /\ dir \in SUBSET Files
          /\ content = InitContent
          /\ rows = [k \in Keys |-> NoRow]
          /\ \E t \in {<<48>>, <<49>>, <<50>>, Nines20} :
                call = [fn |-> "FilterUpToTarget", arg |-> t, done |-> FALSE, res |-> <<>>]

CallGetPendingMigrations ==
    /\ Calling("GetPendingMigrations")
    /\ \E s \in ScanMigrationsDir(dir) :
          Returns([scanned |-> s,
                   out |-> GetPendingMigrations(s, GetAppliedMigrations(rows), content)])

CallValidateAppliedChecksums ==
    /\ Calling("ValidateAppliedChecksums")
    /\ \E s \in ScanMigrationsDir(dir) :
          Returns([scanned |-> s,
                   out |-> ValidateAppliedChecksums(s, GetAppliedMigrations(rows), content)])

CallFilterUpToTarget ==
    /\ Calling("FilterUpToTarget")
    /\ \E s \in ScanMigrationsDir(dir) :
          Returns([scanned |-> s, out |-> FilterUpToTarget(s, call.arg)])

ResolverNext ==
    \/ CallGetPendingMigrations
    \/ CallValidateAppliedChecksums
    \/ CallFilterUpToTarget

ResolverSpec == ResolverInit /\ [][ResolverNext]_vars

\* a call of the resolver function fn has returned
CallReturned(fn) == call.fn = fn /\ call.done

\* the row of schema_migrations under key k says the migration was applied
HasSuccessRow(k) == k \in DOMAIN rows /\ rows[k].present /\ rows[k].Success

\* the checksum of the present content of file f
FileChecksum(f) == CalculateChecksumFromContent(content[f])

\* the scanned migration m is due: a Versioned without a success=true row, or
\* a Repeatable without one or with another checksum stored than its file has
Due(m) ==
    \/ /\ m.Type = TypeVersioned
       /\ ~HasSuccessRow(m.Version)
    \/ /\ m.Type = TypeRepeatable
       /\ \/ ~HasSuccessRow(m.Version \o <<ChUnderscore>> \o m.Description)
          \/ rows[m.Version \o <<ChUnderscore>> \o m.Description].Checksum
                # FileChecksum(m.Filename)

\* the files GetPendingMigrations has to read: the due Versioned ones and
\* every Repeatable
ReadByPending(m) ==
    \/ m.Type = TypeRepeatable
    \/ m.Type = TypeVersioned /\ Due(m)

\* the file names of a list of migrations, in the list's order
Filenames(list) == [i \in DOMAIN list |-> list[i].Filename]

\* C28: when GetPendingMigrations returns a list, the list is the scanned list
\* restricted to the due migrations, in scanner order, each with the checksum
\* of its file, and it holds no Undo migration; the call fails only when a
\* file it has to read does not parse
C28_PendingExactly ==
    CallReturned("GetPendingMigrations") =>
        LET s == call.res.scanned
            out == call.res.out
        IN /\ out.ok <=> \A i \in DOMAIN s :
                            ReadByPending(s[i]) => ParseMigrationFile(s[i], content).ok
           /\ out.ok =>
                /\ Filenames(out.list) = Filenames(SelectSeq(s, Due))
                /\ \A i \in DOMAIN out.list :
                      /\ out.list[i].Type # TypeUndo
                      /\ out.list[i].Checksum = FileChecksum(out.list[i].Filename)

\* a list was returned that holds a Versioned migration with a success=false
\* row and a Repeatable whose stored checksum differs, and that leaves out an
\* applied Versioned migration, an Undo migration and an unchanged Repeatable
C28_Witness ==
    /\ CallReturned("GetPendingMigrations")
    /\ call.res.out.ok
    /\ \E i \in DOMAIN call.res.out.list :
          /\ call.res.out.list[i].Type = TypeVersioned
          /\ rows[call.res.out.list[i].Version].present
          /\ ~rows[call.res.out.list[i].Version].Success
    /\ \E i \in DOMAIN call.res.out.list :
          /\ call.res.out.list[i].Type = TypeRepeatable
          /\ HasSuccessRow(RecordVersion(call.res.out.list[i]))
    /\ \E i \in DOMAIN call.res.scanned :
          /\ call.res.scanned[i].Type = TypeVersioned
          /\ HasSuccessRow(call.res.scanned[i].Version)
    /\ \E i \in DOMAIN call.res.scanned : call.res.scanned[i].Type = TypeUndo
    /\ \E i \in DOMAIN call.res.scanned :
          /\ call.res.scanned[i].Type = TypeRepeatable
          /\ ~Due(call.res.scanned[i])

\* the Versioned files of the directory with version v
VersionedFilesOf(v) ==
    {f \in dir : /\ parseMigrationFilename(f).Type = TypeVersioned
                 /\ parseMigrationFilename(f).Version = v}

\* the row under key k is one ValidateAppliedChecksums has to report: applied
\* with success, of type versioned, and without a Versioned file of its
\* version that parses and has the recorded checksum
Invalid(k) ==
    /\ rows[k].present
    /\ rows[k].Success
    /\ rows[k].Type = TypeVersioned
    /\ \A f \in VersionedFilesOf(rows[k].Version) :
          \/ ~splitStatements(content[f]).ok
          \/ FileChecksum(f) # rows[k].Checksum

\* C29: ValidateAppliedChecksums returns one error for each successful
\* versioned row that has no Versioned file of its version, whose file does
\* not parse, or whose file has another checksum than the row, and no error
\* for any other row
C29_ValidateExactly ==
    CallReturned("ValidateAppliedChecksums") =>
        /\ \A k \in Keys :
              Cardinality({e \in call.res.out : e.Version = k})
                 = IF Invalid(k) THEN 1 ELSE 0
        /\ \A e \in call.res.out :
              /\ e.Version \in Keys
              /\ e.what = "no corresponding file" <=> VersionedFilesOf(e.Version) = {}
              /\ e.what = "failed to parse" <=>
                    \E f \in VersionedFilesOf(e.Version) : ~splitStatements(content[f]).ok

\* a validation that returned an error, and none for a successful Repeatable
\* row nor for a versioned row that failed or whose checksum matches
C29_Witness ==
    /\ CallReturned("ValidateAppliedChecksums")
    /\ call.res.out # {}
    /\ \E k \in Keys :
          /\ HasSuccessRow(k)
          /\ rows[k].Type = TypeRepeatable
    /\ \E k \in Keys :
          /\ rows[k].present
          /\ rows[k].Type = TypeVersioned
          /\ \A e \in call.res.out : e.Version # k

\* list is sub with elements left out: the indices of list at which sub's
\* elements stand, in increasing order
RECURSIVE IsSubsequence(_, _)
IsSubsequence(sub, list) ==
    IF sub = <<>> THEN TRUE
    ELSE IF list = <<>> THEN FALSE
    ELSE IF Head(sub) = Head(list) THEN IsSubsequence(Tail(sub), Tail(list))
    ELSE IsSubsequence(sub, Tail(list))

\* the elements of a list
Range(list) == {list[i] : i \in DOMAIN list}

\* C30: FilterUpToTarget keeps every Repeatable and exactly those Versioned or
\* Undo migrations whose version is at most the target under CompareVersions,
\* in the order of the input list
C30_FilterUpToTarget ==
    CallReturned("FilterUpToTarget") =>
        /\ IsSubsequence(call.res.out, call.res.scanned)
        /\ \A i \in DOMAIN call.res.scanned :
              call.res.scanned[i] \in Range(call.res.out)
                 <=> \/ call.res.scanned[i].Type = TypeRepeatable
                     \/ CompareVersions(call.res.scanned[i].Version, call.arg) <= 0

\* a filter that kept a Repeatable, a Versioned and an Undo migration, one of
\* them of the target version, and dropped a Versioned migration above it
C30_Witness ==
    /\ CallReturned("FilterUpToTarget")
    /\ \E i, j, k \in DOMAIN call.res.out :
          /\ call.res.out[i].Type = TypeRepeatable
          /\ call.res.out[j].Type = TypeVersioned
          /\ call.res.out[k].Type = TypeUndo
          /\ call.res.out[j].Version = call.arg
    /\ \E i \in DOMAIN call.res.scanned :
          /\ call.res.scanned[i].Type = TypeVersioned
          /\ call.res.scanned[i] \notin Range(call.res.out)

\* C31: the scanner never returns two Repeatable migrations with the same
\* description nor two Versioned migrations with the same version, so no two
\* scanned migrations are recorded under the same key of schema_migrations
C31_ScanKeysUnique ==
    (call.fn = "ScanMigrationsDir" /\ call.done) =>
        \A i, j \in DOMAIN call.res :
            (/\ i # j
             /\ call.res[i].Type # TypeUndo
             /\ call.res[j].Type # TypeUndo)
                => RecordVersion(call.res[i]) # RecordVersion(call.res[j])

(***************************************************************************)
(* The lock manager on a cluster that may fail to execute a statement.     *)
(***************************************************************************)
\* Acquire: executeLWT returns an error for the INSERT; Acquire returns
\* "failed to execute lock query" and the command ends before it has
\* deferred Release
AcquireInsertFails(a) ==
    /\ pc[a] = "insert"
    /\ pc' = Set(pc, a, "idle")
    /\ ret' = Set(ret, a, RetErr([what |-> "failed to acquire lock",
                                  cause |-> "failed to execute lock query"]))
    /\ deadlineIn' = Set(deadlineIn, a, 0)
    /\ backoff' = Set(backoff, a, 0)
    /\ UNCHANGED <<lockVars, rows, fileVars, dryRun, target, viaLib, opVars, stole, sleepIn,
                   execVars, log>>

\* Acquire: forceRelease returns an error, which is logged; the row stays and
\* the loop continues
forceReleaseFails(a) ==
    /\ pc[a] = "steal"
    /\ LoopHead(a, backoff[a])
    /\ UNCHANGED <<lockVars, rows, fileVars, dryRun, target, viaLib, opVars, stole, deadlineIn,
                   sleepIn, execVars, log>>

\* Release: executeLWT returns an error for the DELETE ... IF locked_by, and
\* Release falls back to forceRelease, which deletes the row whoever owns it
\* or fails as well
ReleaseFails(a) ==
    /\ pc[a] = "release"
    /\ \E forced \in BOOLEAN :
          /\ lock' = IF forced THEN NoLock ELSE lock
          /\ released' = Set(released, a, IF forced THEN "force-released" ELSE "failed")
    /\ holds' = Set(holds, a, FALSE)
    /\ myExp' = Set(myExp, a, -1)
    /\ pc' = Set(pc, a, "idle")
    /\ UNCHANGED <<rows, fileVars, dryRun, target, viaLib, opVars, stole, acqVars, execVars,
                   ret, log>>

\* Two operators, each with a lock timeout of its own, keep running the
\* migrate command over an empty directory; a lock row of an owner that is
\* gone may be there from the start
AcquireInit ==
    /\ InitProcesses
    /\ rows = [k \in Keys |-> NoRow]
    /\ content = InitContent
    /\ dir = {}
    /\ call = NoCall
    /\ lockTimeout \in [Agents -> 1..LockTimeout]
    /\ lock \in {NoLock} \cup {LockRow(Dead, t) : t \in 1..LockTimeout}

AcquireNext ==
    \/ \E a \in Agents : AgentStep(a)
    \/ \E a \in Agents : AcquireInsertFails(a)
    \/ \E a \in Agents : forceReleaseFails(a)
    \/ \E a \in Agents : ReleaseFails(a)
    \/ Tick

\* The first operator waits with a long timeout for a lock row that an owner
\* that is gone has left for as long; the second operator goes on as before.
BackoffInit ==
    /\ InitProcesses
    /\ rows = [k \in Keys |-> NoRow]
    /\ content = InitContent
    /\ dir = {}
    /\ call = NoCall
    /\ lockTimeout = [a \in Agents |-> IF a = "a1" THEN MaxTimeout ELSE LockTimeout]
    /\ lock = LockRow(Dead, MaxTimeout)

BackoffSpec == BackoffInit /\ [][AcquireNext]_vars

\* every agent that can take a step eventually takes one, and time passes;
\* nothing obliges the cluster to fail or to stop failing
AcquireSpec ==
    /\ AcquireInit
    /\ [][AcquireNext]_vars
    /\ \A a \in Agents : WF_vars(AgentStep(a))
    /\ WF_vars(Tick)

\* in this step the Acquire call of agent a returns
AcquireReturns(a) == pc[a] \in Acquiring /\ pc'[a] \notin Acquiring

\* in this step Acquire returns nil to agent a, whose own insert was applied
ReturnsSuccess(a) ==
    /\ pc[a] = "insert"
    /\ ~lock.present
    /\ lock' = LockRow(a, lockTimeout[a])
    /\ holds'[a]
    /\ ret'[a] = NoRet

\* in this step Acquire returns the timeout error to agent a, whose deadline
\* has passed
ReturnsTimeout(a) ==
    /\ deadlineIn[a] = 0
    /\ pc'[a] = "idle"
    /\ ret'[a] = RetErr([what |-> "failed to acquire lock"])
    /\ ~holds'[a]

\* in this step Acquire returns the error of an INSERT that was not executed
ReturnsQueryError(a) ==
    /\ pc[a] = "insert"
    /\ pc'[a] = "idle"
    /\ ret'[a] = RetErr([what |-> "failed to acquire lock",
                         cause |-> "failed to execute lock query"])
    /\ ~holds'[a]

\* C32 as stated: every Acquire call eventually returns, and it returns either
\* success, its own insert applied, or the lock-timeout error after the
\* deadline has passed.
C32_AcquireTerminates ==
    /\ \A a \in Agents : (pc[a] \in Acquiring) ~> (pc[a] \notin Acquiring)
    /\ [][\A a \in Agents :
            AcquireReturns(a) => (ReturnsSuccess(a) \/ ReturnsTimeout(a))]_vars

\* C32 as amended: every Acquire call eventually returns, and it returns
\* success, its own insert applied, or the lock-timeout error after the
\* deadline has passed, or the error of an INSERT the cluster did not execute.
C32_AcquireTerminatesOrQueryFails ==
    /\ \A a \in Agents : (pc[a] \in Acquiring) ~> (pc[a] \notin Acquiring)
    /\ [][\A a \in Agents :
            AcquireReturns(a) =>
                (ReturnsSuccess(a) \/ ReturnsTimeout(a) \/ ReturnsQueryError(a))]_vars

\* an Acquire has returned the timeout error while the
\* row of the owner that is gone, found expired, is still there
C32_Witness ==
    /\ pc["a1"] = "idle"
    /\ TimedOut("a1")
    /\ lock.present
    /\ lock.locked_by = Dead
    /\ IsExpired(lock)

\* C33: after an insert that was not applied, Acquire sleeps before its next
\* attempt only when it has read a lock row that is not expired; when the row
\* is expired or absent it goes on to the next attempt without a sleep
C33_SleepOnlyWhileHeld ==
    [][\A a \in Agents :
         (pc[a] = "read" /\ pc'[a] # "read") =>
            (pc'[a] = "sleep" <=> (lock.present /\ ~IsExpired(lock)))]_vars

\* C34: the sleep between the attempts of Acquire is 1 second at first and
\* twice the sleep before it afterwards, and it is never longer than 10 seconds
C34_BackoffBound ==
    \A a \in Agents :
        /\ backoff[a] <= BackoffCap
        /\ sleepIn[a] <= BackoffCap

\* in this step the Release of agent a runs
Releases(a) == pc[a] = "release" /\ pc'[a] = "idle"

\* C35: Release deletes the lock row only when locked_by is its owner: when
\* the row is absent or owned by another agent, Release leaves the lock row
\* as it is and returns success
C35_ReleaseOnlyOwnRow ==
    [][\A a \in Agents :
         (Releases(a) /\ (~lock.present \/ lock.locked_by # a)) =>
            /\ lock' = lock
            /\ released'[a] = "not released"]_vars

\* C36: the unconditional delete of the lock row is executed only by Acquire,
\* in the branch in which it has just read an expired lock row: no Release
\* ends with a forced delete, tried or done, and the step of Acquire that
\* deletes started from that branch
C36_ForceReleaseOnlyToSteal ==
    /\ [](\A a \in Agents : released[a] \notin {"force-released", "failed"})
    /\ [][\A a \in Agents :
            /\ (pc[a] # "steal" /\ pc'[a] = "steal") =>
                  (pc[a] = "read" /\ lock.present /\ IsExpired(lock))
            /\ (~stole[a] /\ stole'[a]) => pc[a] = "steal"]_vars

\* in this step the forceRelease of agent a's Acquire deletes the lock row
StealDeletes(a) == pc[a] = "steal" /\ lock.present /\ ~lock'.present

\* C37: the lock row that the forceRelease of Acquire deletes is expired at
\* the moment of the delete; a row that another agent has inserted since the
\* stealer read the expired row is never removed
C37_StealRemovesOnlyExpired ==
    [][\A a \in Agents : StealDeletes(a) => IsExpired(lock)]_vars

\* the places i of agent a's log at which a schema agreement wait timed out
WaitTimeouts(a) == {i \in DOMAIN log[a] : log[a][i].ev = "wait" /\ ~log[a][i].ok}

\* what follows the timed-out wait at place i of a rollback's log: the next
\* statement of the same Undo migration, or after its last statement the
\* removal of the row
RollbackGoesOnAfter(a, i) ==
    LET w == log[a][i]
        last == w.idx = Len(pending[a][w.mig].Statements)
    IN /\ i < Len(log[a]) =>
            LET n == log[a][i + 1] IN
            IF last
            THEN n.ev = "remove" /\ n.mig = w.mig
            ELSE n.ev = "stmt" /\ n.mig = w.mig /\ n.idx = w.idx + 1
       /\ i = Len(log[a]) =>
            /\ ret[a].kind # "error"
            /\ pc[a] \in {IF last THEN "rbremove" ELSE "rbexec", "idle"}

\* what follows the timed-out wait at place i of a migrate run's log: the
\* failure record and the error
MigrationFailsAfter(a, i) ==
    /\ i < Len(log[a]) =>
          /\ i + 1 = Len(log[a])
          /\ log[a][i + 1].ev = "record"
          /\ ~log[a][i + 1].success
          /\ log[a][i + 1].file = log[a][i].file
    /\ ret[a] # RetOk
    /\ pc[a] \notin {"exec", "wait", "recok"}

\* C38: a schema agreement timeout after a DDL statement of a rollback is a
\* warning only, the remaining undo statements are executed and the row is
\* removed; in a forward migration the timeout fails the migration
C38_RollbackWaitIsWarning ==
    \A a \in Agents : \A i \in WaitTimeouts(a) :
        IF op[a] = "rollback"
        THEN RollbackGoesOnAfter(a, i)
        ELSE MigrationFailsAfter(a, i)

\* a rollback has returned success after a schema agreement timeout, having
\* executed the statement after the DDL statement and removed the row
C38_Witness ==
    /\ op["a1"] = "rollback"
    /\ pc["a1"] \in {"release", "idle"}
    /\ ret["a1"] = RetOk
    /\ \E i \in WaitTimeouts("a1") :
          /\ i + 2 <= Len(log["a1"])
          /\ log["a1"][i + 1].ev = "stmt"
          /\ log["a1"][i + 1].ok
          /\ log["a1"][i + 2].ev = "remove"
          /\ log["a1"][i + 2].ok
          /\ ~rows[log["a1"][i + 2].version].present

\* the places i of agent a's log at which an Undo statement of its rollback
\* failed
UndoFailures(a) ==
    {i \in DOMAIN log[a] : op[a] = "rollback" /\ log[a][i].ev = "stmt" /\ ~log[a][i].ok}

\* C39: when an undo statement fails, the rollback stops with an error: the
\* row of the failing version is still there with success=true, the rows of
\* the versions rolled back before it stay removed, and nothing is executed
\* or removed after the failing statement
C39_RollbackStopsAtFailure ==
    \A a \in Agents : \A i \in UndoFailures(a) :
        /\ i = Len(log[a])
        /\ pc[a] \in {"release", "idle"}
        /\ ret[a].kind \in {"error", "killed"}
        /\ ret[a].kind = "error" =>
              /\ ret[a].err.what = "rollback failed"
              /\ ret[a].err.version = pending[a][log[a][i].mig].Version
        /\ LET row == rows[toRollback[a][log[a][i].mig].Version]
           IN row.present /\ row.Success /\ row.Type = TypeVersioned
        /\ \A j \in 1..(i - 1) :
              (log[a][j].ev = "remove" /\ log[a][j].ok) =>
                  ~rows[log[a][j].version].present

\* a rollback of two versions has removed the row of the first and has failed
\* at a statement of the Undo migration of the second
C39_Witness ==
    \E i \in UndoFailures("a1") :
        /\ log["a1"][i].mig = 2
        /\ Len(pending["a1"]) = 2
        /\ ret["a1"].kind = "error"
        /\ \E j \in 1..(i - 1) : log["a1"][j].ev = "remove" /\ log["a1"][j].ok
        /\ ~rows[toRollback["a1"][1].Version].present
        /\ rows[toRollback["a1"][2].Version].present

(***************************************************************************)
(* The readers: the status and validate commands and Migrator.Status.      *)
(***************************************************************************)
\* a status command that takes the lock
StatusTakingLock(a, l) ==
    /\ pc[a] = "idle"
    /\ lock' = LockRow(a, lockTimeout[a])
    /\ op' = Set(op, a, "status")
    /\ viaLib' = Set(viaLib, a, l)
    /\ ret' = Set(ret, a, RetOk)
    /\ UNCHANGED <<holds, myExp, released, rows, fileVars, pc, dryRun, target, steps, flags,
                   toRollback, work, stole, acqVars, execVars, log>>

\* statusCmd, and with l Migrator.Status: one scan of the directory and one
\* read of schema_migrations; the command counts the scanned files with a
\* success=true row under their key and those without a row that are no Undo
\* files, the library counts the rows and the pending migrations
Status(a, l) ==
    /\ pc[a] = "idle"
    /\ op' = Set(op, a, "status")
    /\ viaLib' = Set(viaLib, a, l)
    /\ \E s \in ScanMigrationsDir(dir) :
        LET applied == GetAppliedMigrations(rows)
            key(i) == IF s[i].Type = TypeRepeatable
                      THEN s[i].Version \o <<ChUnderscore>> \o s[i].Description
                      ELSE s[i].Version
            exists(i) == \E r \in applied : r.Version = key(i)
            success(i) == \E r \in applied : r.Version = key(i) /\ r.Success
            pend == GetPendingMigrations(s, applied, content)
        IN ret' = Set(ret, a,
              IF ~l
              THEN [kind |-> "ok",
                    applied |-> Cardinality({i \in DOMAIN s : success(i)}),
                    pending |-> Cardinality({i \in DOMAIN s :
                                              ~exists(i) /\ s[i].Type # TypeUndo})]
              ELSE IF pend.ok
              THEN [kind |-> "ok", applied |-> Cardinality(applied),
                    pending |-> Len(pend.list)]
              ELSE RetErr([what |-> "failed to parse"]))
    /\ UNCHANGED <<lockVars, rows, fileVars, pc, dryRun, target, steps, flags, toRollback,
                   work, stole, acqVars, execVars, log>>

\* validateCmd: one scan, one read of schema_migrations and
\* ValidateAppliedChecksums; an error when it reports anything
Validate(a) ==
    /\ pc[a] = "idle"
    /\ op' = Set(op, a, "validate")
    /\ \E s \in ScanMigrationsDir(dir) :
        LET errs == ValidateAppliedChecksums(s, GetAppliedMigrations(rows), content)
        IN ret' = Set(ret, a, IF errs = {} THEN RetOk
                              ELSE RetErr([what |-> "validation errors",
                                           n |-> Cardinality(errs)]))
    /\ UNCHANGED <<lockVars, rows, fileVars, pc, dryRun, target, viaLib, steps, flags,
                   toRollback, work, stole, acqVars, execVars, log>>

\* One operator migrates, under the lock, a directory over a table that runs
\* before it have filled in any way; another operator reads at any moment.
ReaderInit ==
    /\ InitProcesses
    /\ lockTimeout = [a \in Agents |-> LockTimeout]
    /\ call = NoCall
    /\ lock = NoLock
    /\ dir \in {{"V1__a.cql", "V2__b.cql", "U1__a.cql", "R__x.cql"}, {"V2__b.cql"}}
    /\ content \in {InitContent, [InitContent EXCEPT !["V1__a.cql"] = "bad"]}
    /\ \E r \in [ResolverKeys -> UNION {ResolverRowsOf(k) : k \in ResolverKeys}] :
          /\ \A k \in ResolverKeys : r[k] \in ResolverRowsOf(k)
          /\ rows = [k \in Keys |-> IF k \in ResolverKeys THEN r[k] ELSE NoRow]

ReaderNext ==
    \/ StartMigrate("a1", FALSE, NoTarget, FALSE)
    \/ AcquireInsert("a1")
    \/ Resolve("a1")
    \/ ExecuteStatement("a1")
    \/ WaitForSchemaAgreement("a1")
    \/ RecordFailure("a1")
    \/ RecordSuccess("a1")
    \/ Release("a1")
    \/ \E l \in BOOLEAN : Status("a2", l)
    \/ Validate("a2")

ReaderSpec == ReaderInit /\ [][ReaderNext]_vars

\* in this step a status or validate command of agent a runs
Reads(a) ==
    /\ op'[a] \in {"status", "validate"}
    /\ <<op[a], viaLib[a], ret[a]>> # <<op'[a], viaLib'[a], ret'[a]>>

\* C40: the status and validate commands never insert or delete the lock row
\* and never write, update or delete a row of schema_migrations, and they can
\* run to their end at any moment, also while another agent holds the lock
C40_ReadersDoNotMutate ==
    /\ [][\A a \in Agents : Reads(a) => (lock' = lock /\ rows' = rows)]_vars
    /\ [](ENABLED Status("a2", FALSE) /\ ENABLED Status("a2", TRUE) /\ ENABLED Validate("a2"))

\* the other agent holds the lock in the middle of a migration that has
\* written a row, a status command has returned the counts of the table as it
\* is now, and the validate command can run
C40_Witness ==
    /\ holds["a1"]
    /\ lock.present
    /\ lock.locked_by = "a1"
    /\ pc["a1"] \in {"exec", "wait", "recfail", "recok"}
    /\ \E i \in DOMAIN log["a1"] : log["a1"][i].ev = "record" /\ log["a1"][i].written
    /\ op["a2"] = "status"
    /\ viaLib["a2"]
    /\ ret["a2"].kind = "ok"
    /\ ret["a2"].applied = Cardinality(GetAppliedMigrations(rows))
    /\ ret["a2"].pending > 0
    /\ ENABLED Validate("a2")

====
